---- MODULE Spec2Model ----
(***************************************************************************)
(* Forge: patch / change-tracking engine.                                  *)
(*                                                                         *)
(* The model covers the workspace repository adapter (core/git.ts), patch  *)
(* discovery and application (core/patches.ts), the diff export engine     *)
(* (commands/export.ts, commands/export-all.ts) and the commands built on  *)
(* them.  The git binary is an external collaborator: its behaviour        *)
(* (status, diff, apply, checkout, clean) is modelled next to the call     *)
(* site that spawns it.                                                    *)
(*                                                                         *)
(* Texts are modelled line by line.  A file content is a sequence of       *)
(* characters; a patch text is a sequence of diff lines together with a    *)
(* flag telling whether the last line is terminated by a newline.          *)
(***************************************************************************)
EXTENDS Integers, Sequences, FiniteSets, TLC

\* ------------------------------------------------------------------------
\* Characters, contents, trees
\* ------------------------------------------------------------------------

NL == "\n"

\* A path that is not present in a tree.
Absent == <<"ABSENT">>

\* Contents used by the model: "a\n", "b\n", "c\n", "b" (no final newline).
CA == <<"a", NL>>
CB == <<"b", NL>>
CC == <<"c", NL>>
CBnoNL == <<"b">>

\* Paths the user works on.  "f" is part of the pristine source; "g" and
\* "d/u" are not ("d/u" lives in a directory "d/" that the pristine source
\* does not have).
EditPaths == {"f", "g", "d/u"}

\* Paths of the branding: the script of the custom branding directory
\* (binaryName is "b"), the script of the unofficial branding it is copied
\* from, and browser/moz.configure.
BrandingScript == "browser/branding/b/configure.sh"
UnofficialScript == "browser/branding/unofficial/configure.sh"
MozConfigure == "browser/moz.configure"

\* Paths of the workspace.
Paths == EditPaths \cup {BrandingScript, UnofficialScript, MozConfigure}

\* Lexicographic order of the paths, as git lists them.
PathOrder == <<BrandingScript, UnofficialScript, MozConfigure, "d/u", "f", "g">>

\* The directory git status names for a path when nothing in it is tracked
\* ("" for the top level).
DirOf(p) ==
  CASE p = "d/u" -> "d/"
    [] p = BrandingScript -> "browser/branding/b/"
    [] p = UnofficialScript -> "browser/branding/unofficial/"
    [] p = MozConfigure -> "browser/"
    [] OTHER -> ""

\* Characters of the branding files.
Quote == "\""
Backslash == "\\"

\* imply_option("MOZ_APP_VENDOR", "<vendor>") in browser/moz.configure: the
\* text up to and including the opening quote of the value is one token.
OptionOpen == "imply_option(\"MOZ_APP_VENDOR\", \""
VendorOption(vendor) == <<OptionOpen>> \o vendor \o <<Quote, ")">>

\* The tree committed by download: the pristine source.
Baseline ==
  [p \in Paths |->
     CASE p = "f" -> CA
       [] p = UnofficialScript -> <<"MOZ_APP_DISPLAYNAME=", Quote, "Nightly", Quote, NL>>
       [] p = MozConfigure -> VendorOption(<<"Mozilla">>) \o <<NL>>
       [] OTHER -> Absent]

\* const v = <value>; <rest>: the value is computed once and the rest of
\* the function works on it.
Bind(v, Rest(_)) == Rest(v)

\* ------------------------------------------------------------------------
\* Strings as character sequences
\* ------------------------------------------------------------------------

\* String.prototype.endsWith('\n')
EndsWithNL(s) == Len(s) > 0 /\ s[Len(s)] = NL

\* Index of the first newline of s, 0 if there is none.
RECURSIVE FirstNL(_, _)
FirstNL(s, i) ==
  IF i > Len(s) THEN 0
  ELSE IF s[i] = NL THEN i
  ELSE FirstNL(s, i + 1)

\* String.prototype.split('\n'): always at least one piece.
RECURSIVE SplitNL(_)
SplitNL(s) ==
  LET i == FirstNL(s, 1) IN
  IF i = 0 THEN <<s>>
  ELSE <<SubSeq(s, 1, i - 1)>> \o SplitNL(SubSeq(s, i + 1, Len(s)))

\* ------------------------------------------------------------------------
\* Patch texts
\* ------------------------------------------------------------------------

\* One line of a unified diff.  k is the kind of the line:
\*   "diff"  diff --git a/<p> b/<p>
\*   "new"   new file mode 100644        "del"  deleted file mode 100644
\*   "---"   --- a/<p>  (p = "/dev/null" for a new file)
\*   "+++"   +++ b/<p>  (p = "/dev/null" for a deleted file)
\*   "@@"    @@ -s,<a> +s,<n> @@
\*   "+" "-" " "   added, removed, context line with text t
\*   "\\"    \ No newline at end of file
\*   ""      an empty line
DL(k, p, t, a, n) == [k |-> k, p |-> p, t |-> t, a |-> a, n |-> n]

\* A text: its lines, and whether the last line ends with a newline.
\* The empty string has no lines.
Text(lines, nl) == [lines |-> lines, nl |-> nl]
EmptyText == Text(<<>>, FALSE)

\* s.trim().length > 0
NonBlank(t) == \E i \in 1..Len(t.lines) : t.lines[i].k # ""

\* s + '\n' + t
JoinTwo(s, t) ==
  LET sLines == IF s.nl \/ s.lines = <<>>
                THEN s.lines \o <<DL("", "", <<>>, 0, 0)>>
                ELSE s.lines
  IN  IF t.lines = <<>> THEN Text(sLines, TRUE)
      ELSE Text(sLines \o t.lines, t.nl)

\* Array.prototype.join('\n')
RECURSIVE JoinTexts(_)
JoinTexts(ts) ==
  IF ts = <<>> THEN EmptyText
  ELSE IF Len(ts) = 1 THEN ts[1]
  ELSE JoinTwo(JoinTexts(SubSeq(ts, 1, Len(ts) - 1)), ts[Len(ts)])

\* Array.prototype.filter((d) => d.trim().length > 0)
RECURSIVE FilterNonBlank(_)
FilterNonBlank(ts) ==
  IF ts = <<>> THEN <<>>
  ELSE (IF NonBlank(ts[1]) THEN <<ts[1]>> ELSE <<>>) \o FilterNonBlank(Tail(ts))

\* ------------------------------------------------------------------------
\* core/git.ts: diff synthesis for a new (untracked) file
\* ------------------------------------------------------------------------

\* diffLines.push(`+${lines[i]}`) for i < lineCount
RECURSIVE PlusLines(_, _)
PlusLines(lines, lineCount) ==
  IF lineCount = 0 THEN <<>>
  ELSE PlusLines(lines, lineCount - 1) \o <<DL("+", "", lines[lineCount], 0, 0)>>

\* generateNewFileDiff(repoDir, filePath); content is the text read from
\* the file.  The result of diffLines.join('\n') has no final newline.
generateNewFileDiff(content, filePath) ==
  LET lines == SplitNL(content)
      hasTrailingNewline == EndsWithNL(content)
      lineCount == IF hasTrailingNewline THEN Len(lines) - 1 ELSE Len(lines)
      header == << DL("diff", filePath, <<>>, 0, 0),
                   DL("new", "", <<>>, 0, 0),
                   DL("---", "/dev/null", <<>>, 0, 0),
                   DL("+++", filePath, <<>>, 0, 0),
                   DL("@@", "", <<>>, 0, lineCount) >>
      marker == IF ~hasTrailingNewline /\ lineCount > 0
                THEN <<DL("\\", "", <<>>, 0, 0)>> ELSE <<>>
  IN  Text(header \o PlusLines(lines, lineCount) \o marker, FALSE)

\* ------------------------------------------------------------------------
\* git diff: the text git prints for one changed path.  Contents of the
\* model are shorter than the context of a hunk, so one hunk covers the
\* whole file.
\* ------------------------------------------------------------------------

\* The lines of a content as git counts them: no line for the empty
\* content, no empty last line after a final newline.
GitLines(content) ==
  IF content = <<>> THEN <<>>
  ELSE LET pieces == SplitNL(content)
       IN  IF EndsWithNL(content) THEN SubSeq(pieces, 1, Len(pieces) - 1)
           ELSE pieces

\* The hunk lines of one side, with the marker for a missing final newline.
SideLines(sign, content) ==
  LET ls == GitLines(content) IN
  [i \in 1..Len(ls) |-> DL(sign, "", ls[i], 0, 0)]
    \o (IF ls # <<>> /\ ~EndsWithNL(content)
        THEN <<DL("\\", "", <<>>, 0, 0)>> ELSE <<>>)

\* The diff of path p from content old to content new (either may be
\* Absent).  Git ends its output with a newline.
GitDiffFile(p, old, new) ==
  LET o == IF old = Absent THEN <<>> ELSE old
      n == IF new = Absent THEN <<>> ELSE new
      mode == IF old = Absent THEN <<DL("new", "", <<>>, 0, 0)>>
              ELSE IF new = Absent THEN <<DL("del", "", <<>>, 0, 0)>>
              ELSE <<>>
      body == IF o = <<>> /\ n = <<>> THEN <<>>
              ELSE << DL("---", IF old = Absent THEN "/dev/null" ELSE p, <<>>, 0, 0),
                      DL("+++", IF new = Absent THEN "/dev/null" ELSE p, <<>>, 0, 0),
                      DL("@@", "", <<>>, Len(GitLines(o)), Len(GitLines(n))) >>
                   \o SideLines("-", o) \o SideLines("+", n)
  IN  <<DL("diff", p, <<>>, 0, 0)>> \o mode \o body

\* git diff between two trees over the paths `tracked`, in path order.
RECURSIVE GitDiffLines(_, _, _, _)
GitDiffLines(from, to, tracked, i) ==
  IF i > Len(PathOrder) THEN <<>>
  ELSE LET p == PathOrder[i] IN
       (IF p \in tracked /\ from[p] # to[p]
        THEN GitDiffFile(p, from[p], to[p]) ELSE <<>>)
       \o GitDiffLines(from, to, tracked, i + 1)

GitDiffText(from, to, tracked) ==
  LET ls == GitDiffLines(from, to, tracked, 1)
  IN  IF ls = <<>> THEN EmptyText ELSE Text(ls, TRUE)

\* ------------------------------------------------------------------------
\* git apply: reading a patch text
\* ------------------------------------------------------------------------

\* Remove the final newline of a content (the effect of the marker
\* "\ No newline at end of file" on the line before it).
StripNL(c) == IF EndsWithNL(c) THEN SubSeq(c, 1, Len(c) - 1) ELSE c

\* Whether line i of text is terminated by a newline.
Terminated(text, i) == i < Len(text.lines) \/ text.nl

\* Reads the lines of one hunk starting at line i; a and n are the numbers
\* of old and new lines still expected.  Every line read while lines are
\* expected must end with a newline; a marker that follows the last
\* expected line is taken whether or not it is terminated.
RECURSIVE ParseHunk(_, _, _, _, _, _, _)
ParseHunk(text, i, a, n, old, new, side) ==
  LET bad == [ok |-> FALSE, i |-> i, old |-> old, new |-> new] IN
  IF a = 0 /\ n = 0 THEN
    IF i <= Len(text.lines) /\ text.lines[i].k = "\\"
    THEN [ok |-> TRUE, i |-> i + 1,
          old |-> IF side \in {"-", " "} THEN StripNL(old) ELSE old,
          new |-> IF side \in {"+", " "} THEN StripNL(new) ELSE new]
    ELSE [ok |-> TRUE, i |-> i, old |-> old, new |-> new]
  ELSE IF i > Len(text.lines) THEN bad
  ELSE IF ~Terminated(text, i) THEN bad
  ELSE LET l == text.lines[i] IN
    CASE l.k \in {" ", ""} ->
           IF a = 0 \/ n = 0 THEN bad
           ELSE ParseHunk(text, i + 1, a - 1, n - 1,
                          old \o l.t \o <<NL>>, new \o l.t \o <<NL>>, " ")
      [] l.k = "-" ->
           IF a = 0 THEN bad
           ELSE ParseHunk(text, i + 1, a - 1, n, old \o l.t \o <<NL>>, new, "-")
      [] l.k = "+" ->
           IF n = 0 THEN bad
           ELSE ParseHunk(text, i + 1, a, n - 1, old, new \o l.t \o <<NL>>, "+")
      [] l.k = "\\" ->
           ParseHunk(text, i + 1, a, n,
                     IF side \in {"-", " "} THEN StripNL(old) ELSE old,
                     IF side \in {"+", " "} THEN StripNL(new) ELSE new, side)
      [] OTHER -> bad

\* A change of one path: old and new content (Absent for a file that is
\* created or deleted).
FileDiff(p, old, new) == [path |-> p, old |-> old, new |-> new]

\* Reads one file diff whose "diff" line is line i.
ParseFileDiff(text, i) ==
  LET ls == text.lines
      p == ls[i].p
      hasMode == i + 1 <= Len(ls) /\ ls[i + 1].k \in {"new", "del"}
      isNew == hasMode /\ ls[i + 1].k = "new"
      isDel == hasMode /\ ls[i + 1].k = "del"
      j == IF hasMode THEN i + 2 ELSE i + 1
      hasBody == j + 2 <= Len(ls) /\ ls[j].k = "---" /\ ls[j + 1].k = "+++"
                   /\ ls[j + 2].k = "@@"
  IN  IF hasBody THEN
        LET new == ls[j].p = "/dev/null" \/ isNew
            del == ls[j + 1].p = "/dev/null" \/ isDel
        IN  Bind(ParseHunk(text, j + 3, ls[j + 2].a, ls[j + 2].n, <<>>, <<>>, ""),
                 LAMBDA h :
                   [ok |-> h.ok /\ ~(new /\ h.old # <<>>) /\ ~(del /\ h.new # <<>>),
                    i |-> h.i,
                    d |-> FileDiff(p, IF new THEN Absent ELSE h.old,
                                      IF del THEN Absent ELSE h.new)])
      ELSE \* no hunk: creation or deletion of an empty file
        [ok |-> hasMode, i |-> j,
         d |-> FileDiff(p, IF isNew THEN Absent ELSE <<>>,
                           IF isDel THEN Absent ELSE <<>>)]

\* Reads the file diffs of a text from line i on; lines between the diffs
\* that start no diff are skipped.
RECURSIVE ParseFiles(_, _, _)
ParseFiles(text, i, acc) ==
  IF i > Len(text.lines) THEN [ok |-> acc # <<>>, diffs |-> acc]
  ELSE IF text.lines[i].k = "diff" THEN
    Bind(ParseFileDiff(text, i), LAMBDA r :
      IF r.ok THEN ParseFiles(text, r.i, Append(acc, r.d))
      ELSE [ok |-> FALSE, diffs |-> <<>>])
  ELSE IF text.lines[i].k = "@@" THEN [ok |-> FALSE, diffs |-> <<>>]
  ELSE ParseFiles(text, i + 1, acc)

ParsePatch(text) == ParseFiles(text, 1, <<>>)

\* ------------------------------------------------------------------------
\* git apply: changing the working tree
\* ------------------------------------------------------------------------

\* Applies the file diffs in turn; git writes nothing unless all apply.
RECURSIVE ApplyDiffs(_, _, _)
ApplyDiffs(diffs, wt, reverse) ==
  IF diffs = <<>> THEN [ok |-> TRUE, wt |-> wt]
  ELSE LET d == diffs[1]
           pre == IF reverse THEN d.new ELSE d.old
           post == IF reverse THEN d.old ELSE d.new
       IN  IF wt[d.path] = pre
           THEN ApplyDiffs(Tail(diffs), [wt EXCEPT ![d.path] = post], reverse)
           ELSE [ok |-> FALSE, wt |-> wt]

\* git apply [--reverse] <patch>: exit status and resulting working tree.
GitApply(text, wt, reverse) ==
  Bind(ParsePatch(text), LAMBDA parsed :
    Bind(ApplyDiffs(parsed.diffs, wt, reverse), LAMBDA r :
      IF parsed.ok /\ r.ok THEN [ok |-> TRUE, wt |-> r.wt]
      ELSE [ok |-> FALSE, wt |-> wt]))

\* git apply --check <patch>: exit status only.
GitApplyCheck(text, wt) == GitApply(text, wt, FALSE).ok

\* ------------------------------------------------------------------------
\* core/patches.ts: discovery and ordering of patch files
\* ------------------------------------------------------------------------

\* A file name is a sequence of characters; the suffixes ".patch" and
\* ".txt" are single elements of it.
Digits == <<"0", "1", "2", "3", "4", "5", "6", "7", "8", "9">>

IsDigit(c) == \E d \in 1..10 : Digits[d] = c

DigitValue(c) == (CHOOSE d \in 1..10 : Digits[d] = c) - 1

\* Length of the run of digits at the start of a name: the match of \d+.
RECURSIVE DigitRun(_, _)
DigitRun(name, i) ==
  IF i <= Len(name) /\ IsDigit(name[i]) THEN DigitRun(name, i + 1) ELSE i - 1

\* parseInt(digits, 10)
RECURSIVE ParseInt(_)
ParseInt(ds) ==
  IF ds = <<>> THEN 0
  ELSE 10 * ParseInt(SubSeq(ds, 1, Len(ds) - 1)) + DigitValue(ds[Len(ds)])

\* The order of a patch: a number, or Infinity.
Finite(n) == [inf |-> FALSE, n |-> n]
Infinity == [inf |-> TRUE, n |-> 0]

\* Variant of extractOrder that gives a file without a numeric prefix the
\* order 0.
extractOrderZero(filename) ==
  LET r == DigitRun(filename, 1) IN
  IF r >= 1 /\ r + 1 <= Len(filename) /\ filename[r + 1] = "-"
  THEN Finite(ParseInt(SubSeq(filename, 1, r)))
  ELSE Finite(0)

\* Variant of extractOrder that wants a description after the hyphen.
extractOrderNamed(filename) ==
  LET r == DigitRun(filename, 1) IN
  IF r >= 1 /\ r + 2 <= Len(filename) /\ filename[r + 1] = "-"
     /\ filename[r + 2] # ".patch"
  THEN Finite(ParseInt(SubSeq(filename, 1, r)))
  ELSE Infinity

\* extractOrder(filename): /^(\d+)-/ and parseInt of the group.
extractOrder(filename) ==
  LET r == DigitRun(filename, 1) IN
  IF r >= 1 /\ r + 1 <= Len(filename) /\ filename[r + 1] = "-"
  THEN Finite(ParseInt(SubSeq(filename, 1, r)))
  ELSE Infinity

\* path.extname(name): the suffix from the last dot on, "" for a name that
\* starts with its only dot.
extname(name) ==
  IF Len(name) >= 2 /\ name[Len(name)] \in {".patch", ".txt"}
  THEN name[Len(name)] ELSE ""

\* a.order - b.order: the sign of the difference; Infinity - Infinity is NaN.
OrderDiff(a, b) ==
  IF a.inf /\ b.inf THEN "NaN"
  ELSE IF a.inf THEN "pos"
  ELSE IF b.inf THEN "neg"
  ELSE IF a.n < b.n THEN "neg"
  ELSE IF a.n > b.n THEN "pos"
  ELSE "zero"

\* Array.prototype.sort with the comparator (a, b) => a.order - b.order.
\* The sort is stable: an element moves in front of another one only when
\* the comparator is negative (NaN counts as zero).
RECURSIVE InsertSorted(_, _)
InsertSorted(sorted, x) ==
  IF sorted = <<>> THEN <<x>>
  ELSE LET last == sorted[Len(sorted)] IN
       IF OrderDiff(x.order, last.order) = "neg"
       THEN Append(InsertSorted(SubSeq(sorted, 1, Len(sorted) - 1), x), last)
       ELSE Append(sorted, x)

RECURSIVE SortByOrder(_)
SortByOrder(ps) ==
  IF ps = <<>> THEN <<>>
  ELSE InsertSorted(SortByOrder(SubSeq(ps, 1, Len(ps) - 1)), ps[Len(ps)])

\* Variant of the filter that does not ask entry.isFile().
RECURSIVE PatchEntriesAnyKind(_)
PatchEntriesAnyKind(entries) ==
  IF entries = <<>> THEN <<>>
  ELSE (IF extname(entries[1].name) = ".patch"
        THEN <<[filename |-> entries[1].name,
                order |-> extractOrder(entries[1].name)]>>
        ELSE <<>>) \o PatchEntriesAnyKind(Tail(entries))

\* entries.filter(isFile && extname === '.patch').map(PatchInfo)
RECURSIVE PatchEntries(_)
PatchEntries(entries) ==
  IF entries = <<>> THEN <<>>
  ELSE (IF entries[1].isFile /\ extname(entries[1].name) = ".patch"
        THEN <<[filename |-> entries[1].name,
                order |-> extractOrder(entries[1].name)]>>
        ELSE <<>>) \o PatchEntries(Tail(entries))

\* discoverPatches(patchesDir).  dirExists: whether the directory exists;
\* entries: its entries in the order readdir returns them.
discoverPatches(dirExists, entries) ==
  IF ~dirExists THEN <<>>
  ELSE SortByOrder(PatchEntries(entries))

\* countPatches(patchesDir)
countPatches(dirExists, entries) == Len(discoverPatches(dirExists, entries))

\* Math.max(...orders)
RECURSIVE MaxOrder(_)
MaxOrder(ps) ==
  IF Len(ps) = 1 THEN ps[1].order
  ELSE LET m == MaxOrder(Tail(ps)) IN
       IF OrderDiff(ps[1].order, m) = "pos" THEN ps[1].order ELSE m

\* String(n)
RECURSIVE NumberToString(_)
NumberToString(n) ==
  IF n < 10 THEN <<Digits[n + 1]>>
  ELSE Append(NumberToString(n \div 10), Digits[(n % 10) + 1])

\* String.prototype.padStart(width, '0')
RECURSIVE PadStart(_, _)
PadStart(s, width) ==
  IF Len(s) >= width THEN s ELSE PadStart(<<"0">> \o s, width)

\* getNextPatchNumber(patchesDir)
getNextPatchNumber(dirExists, entries) ==
  LET patches == discoverPatches(dirExists, entries) IN
  IF Len(patches) = 0 THEN <<"0", "0", "1">>
  ELSE LET maxOrder == MaxOrder(patches)
           nextNumber == IF maxOrder = Infinity THEN 1 ELSE maxOrder.n + 1
       IN  PadStart(NumberToString(nextNumber), 3)

\* ------------------------------------------------------------------------
\* State
\* ------------------------------------------------------------------------

VARIABLES
  gitOnPath,      \* whether the git binary is found on PATH
  head,           \* the tree of the commit HEAD points to
  commits,        \* number of commits created in the engine repository
  index,          \* the git index (staging area)
  wt,             \* the working tree of the engine directory
  patchesExists,  \* whether the patches directory exists
  patchDir,       \* the files of the patches directory: name -> text
  edits,          \* number of changes made so far (see MaxEdits)
  listing,        \* a directory read by the patch-set functions, and what they returned
  root,           \* the project root: forge.json, .forge/state.json, the cached
                  \* tarballs, and whether the engine directory exists
  last,           \* the last command: what it was given and how it ended
  chain           \* which command sequence the last commands form

vars == <<gitOnPath, head, commits, index, wt, patchesExists, patchDir,
          edits, listing, root, last, chain>>

\* What a command works on: the engine repository and the log of the git
\* invocations the command has spawned.
World(g, h, c, ix, w) ==
  [git |-> g, head |-> h, commits |-> c, index |-> ix, wt |-> w, calls |-> <<>>]

Spawn(w, call) == [w EXCEPT !.calls = Append(@, call)]

\* ------------------------------------------------------------------------
\* core/git.ts: the workspace repository adapter
\* ------------------------------------------------------------------------

\* ensureGit(): the error it throws, "" if none.
ensureGit(w) == IF w.git THEN "" ELSE "GitNotFoundError"

\* Paths known to the index or to HEAD.
Tracked(w) == {p \in Paths : w.index[p] # Absent \/ w.head[p] # Absent}

\* Paths present in the working tree and unknown to the index.
Untracked(w) == {p \in Paths : w.index[p] = Absent /\ w.wt[p] # Absent}

\* The two status letters of a tracked path.
StatusX(w, p) ==
  IF w.index[p] = w.head[p] THEN " "
  ELSE IF w.head[p] = Absent THEN "A"
  ELSE IF w.index[p] = Absent THEN "D"
  ELSE "M"

StatusY(w, p) ==
  IF w.index[p] = Absent \/ w.wt[p] = w.index[p] THEN " "
  ELSE IF w.wt[p] = Absent THEN "D"
  ELSE "M"

\* The name git status prints for an untracked path: the directory, when
\* nothing in the directory is tracked.
UntrackedName(w, p) ==
  IF DirOf(p) # "" /\ \A q \in Paths : DirOf(q) = DirOf(p) => w.index[q] = Absent
  THEN DirOf(p) ELSE p

\* git status --porcelain: the lines "XY <file>", tracked paths first.
RECURSIVE TrackedStatus(_, _)
TrackedStatus(w, i) ==
  IF i > Len(PathOrder) THEN <<>>
  ELSE LET p == PathOrder[i] IN
       (IF p \in Tracked(w) /\ (StatusX(w, p) # " " \/ StatusY(w, p) # " ")
        THEN <<[x |-> StatusX(w, p), y |-> StatusY(w, p), file |-> p]>>
        ELSE <<>>) \o TrackedStatus(w, i + 1)

RECURSIVE UntrackedStatus(_, _, _)
UntrackedStatus(w, i, seen) ==
  IF i > Len(PathOrder) THEN <<>>
  ELSE LET p == PathOrder[i]
           name == UntrackedName(w, p)
       IN  IF p \in Untracked(w) /\ name \notin seen
           THEN <<[x |-> "?", y |-> "?", file |-> name]>>
                  \o UntrackedStatus(w, i + 1, seen \cup {name})
           ELSE UntrackedStatus(w, i + 1, seen)

GitStatus(w) == TrackedStatus(w, 1) \o UntrackedStatus(w, 1, {})

\* line.slice(0, 2).trim()
StatusCode(l) ==
  IF l.x = " " THEN l.y
  ELSE IF l.y = " " THEN l.x
  ELSE l.x \o l.y

\* hasChanges(repoDir)
hasChanges(w) ==
  IF ensureGit(w) # "" THEN [err |-> ensureGit(w), val |-> FALSE, w |-> w]
  ELSE [err |-> "", val |-> GitStatus(w) # <<>>, w |-> Spawn(w, "status")]

\* getModifiedFiles(repoDir): line.slice(3) of every status line.
getModifiedFiles(w) ==
  IF ensureGit(w) # "" THEN [err |-> ensureGit(w), val |-> <<>>, w |-> w]
  ELSE Bind(GitStatus(w), LAMBDA lines :
         [err |-> "",
          val |-> [i \in 1..Len(lines) |-> lines[i].file],
          w |-> Spawn(w, "status")])

\* getStatusWithCodes(repoDir)
getStatusWithCodes(w) ==
  IF ensureGit(w) # "" THEN [err |-> ensureGit(w), val |-> <<>>, w |-> w]
  ELSE Bind(GitStatus(w), LAMBDA lines :
         [err |-> "",
          val |-> [i \in 1..Len(lines) |->
                     [status |-> StatusCode(lines[i]), file |-> lines[i].file]],
          w |-> Spawn(w, "status")])

\* git checkout . : every path of the index gets its index content back.
GitCheckoutAll(w) ==
  [w EXCEPT !.wt = [p \in Paths |->
                      IF w.index[p] # Absent THEN w.index[p] ELSE w.wt[p]]]

\* git clean -fd: removes what the index does not know.
GitClean(w) ==
  [w EXCEPT !.wt = [p \in Paths |->
                      IF w.index[p] = Absent THEN Absent ELSE w.wt[p]]]

\* resetChanges(repoDir)
resetChanges(w) ==
  IF ensureGit(w) # "" THEN [err |-> ensureGit(w), w |-> w]
  ELSE [err |-> "",
        w |-> Spawn(GitClean(Spawn(GitCheckoutAll(w), "checkout .")), "clean -fd")]

\* discardFile(repoDir, filePath): git checkout HEAD -- <file> fails for a
\* path HEAD does not have.
discardFile(w, file) ==
  IF ensureGit(w) # "" THEN [err |-> ensureGit(w), w |-> w]
  ELSE IF file \notin Paths \/ w.head[file] = Absent
  THEN [err |-> "GitError", w |-> Spawn(w, "checkout HEAD --")]
  ELSE [err |-> "",
        w |-> Spawn([w EXCEPT !.index[file] = w.head[file],
                              !.wt[file] = w.head[file]], "checkout HEAD --")]

\* getFileDiff(repoDir, filePath): git diff HEAD -- <file>
getFileDiff(w, file) ==
  IF ensureGit(w) # "" THEN [err |-> ensureGit(w), val |-> EmptyText, w |-> w]
  ELSE [err |-> "",
        val |-> GitDiffText(w.head, w.wt, Tracked(w) \cap {file}),
        w |-> Spawn(w, "diff HEAD --")]

\* getUntrackedFiles(repoDir): git ls-files --others --exclude-standard
RECURSIVE UntrackedList(_, _)
UntrackedList(w, i) ==
  IF i > Len(PathOrder) THEN <<>>
  ELSE (IF PathOrder[i] \in Untracked(w) THEN <<PathOrder[i]>> ELSE <<>>)
         \o UntrackedList(w, i + 1)

getUntrackedFiles(w) ==
  IF ensureGit(w) # "" THEN [err |-> ensureGit(w), val |-> <<>>, w |-> w]
  ELSE [err |-> "", val |-> UntrackedList(w, 1), w |-> Spawn(w, "ls-files --others")]

\* Variant of getAllDiff that stages everything and diffs the index.
getAllDiffStaged(w) ==
  IF ensureGit(w) # "" THEN [err |-> ensureGit(w), val |-> EmptyText, w |-> w]
  ELSE [err |-> "",
        val |-> GitDiffText(w.head, w.wt, Paths),
        w |-> Spawn(Spawn([w EXCEPT !.index = w.wt], "add -A"), "diff --cached")]

\* getAllDiff(repoDir)
getAllDiff(w) ==
  IF ensureGit(w) # "" THEN [err |-> ensureGit(w), val |-> EmptyText, w |-> w]
  ELSE LET w1 == Spawn(w, "diff HEAD")
           trackedDiff == GitDiffText(w.head, w.wt, Tracked(w))
           untracked == getUntrackedFiles(w1)
           untrackedFiles == untracked.val
           untrackedDiffs == [i \in 1..Len(untrackedFiles) |->
                                generateNewFileDiff(w.wt[untrackedFiles[i]],
                                                    untrackedFiles[i])]
           allDiffs == FilterNonBlank(<<trackedDiff>> \o untrackedDiffs)
       IN  IF untracked.err # ""
           THEN [err |-> untracked.err, val |-> EmptyText, w |-> untracked.w]
           ELSE [err |-> "", val |-> JoinTexts(allDiffs), w |-> untracked.w]

\* commit(repoDir, message): git add -A, git commit.  No command calls it.
commit(w) ==
  IF ensureGit(w) # "" THEN [err |-> ensureGit(w), w |-> w]
  ELSE [err |-> "",
        w |-> Spawn(Spawn([w EXCEPT !.index = w.wt, !.head = w.wt,
                                    !.commits = w.commits + 1], "add -A"), "commit")]

\* Variant of applyPatch that commits what it has applied.
applyPatchAndCommit(text, w) ==
  IF ensureGit(w) # "" THEN [err |-> ensureGit(w), w |-> w]
  ELSE LET w1 == Spawn(w, "apply --check") IN
       IF ~GitApplyCheck(text, w.wt) THEN [err |-> "PatchApplyError", w |-> w1]
       ELSE Bind(GitApply(text, w.wt, FALSE), LAMBDA applyResult :
              LET w2 == Spawn([w1 EXCEPT !.wt = applyResult.wt], "apply") IN
              IF ~applyResult.ok THEN [err |-> "PatchApplyError", w |-> w2]
              ELSE commit(w2))

\* applyPatch(patchPath, repoDir); text is the content of the patch file.
applyPatch(text, w) ==
  IF ensureGit(w) # "" THEN [err |-> ensureGit(w), w |-> w]
  ELSE LET w1 == Spawn(w, "apply --check") IN
       IF ~GitApplyCheck(text, w.wt) THEN [err |-> "PatchApplyError", w |-> w1]
       ELSE Bind(GitApply(text, w.wt, FALSE), LAMBDA applyResult :
              LET w2 == Spawn([w1 EXCEPT !.wt = applyResult.wt], "apply") IN
              IF ~applyResult.ok THEN [err |-> "PatchApplyError", w |-> w2]
              ELSE [err |-> "", w |-> w2])

\* Variant of applyPatchIdempotent without the reverse application.
applyPatchForwardOnly(text, w) ==
  IF ensureGit(w) # "" THEN [err |-> ensureGit(w), w |-> w]
  ELSE applyPatch(text, w)

\* Variant of applyPatchIdempotent that raises when the reverse application
\* exits non-zero.
applyPatchReverseChecked(text, w) ==
  IF ensureGit(w) # "" THEN [err |-> ensureGit(w), w |-> w]
  ELSE IF ~GitApply(text, w.wt, TRUE).ok
  THEN [err |-> "PatchApplyError", w |-> Spawn(w, "apply --reverse")]
  ELSE applyPatch(text,
         Spawn([w EXCEPT !.wt = GitApply(text, w.wt, TRUE).wt], "apply --reverse"))

\* applyPatchIdempotent(patchPath, repoDir): the exit status of the reverse
\* application is not looked at.
applyPatchIdempotent(text, w) ==
  IF ensureGit(w) # "" THEN [err |-> ensureGit(w), w |-> w]
  ELSE applyPatch(text,
         Spawn([w EXCEPT !.wt = GitApply(text, w.wt, TRUE).wt], "apply --reverse"))

\* ------------------------------------------------------------------------
\* core/branding.ts
\* ------------------------------------------------------------------------

\* The branding configuration of forge.json (strings as character
\* sequences).
Config == [name |-> <<"N">>, vendor |-> <<"V">>, appId |-> <<"A">>, binaryName |-> "b"]

LicenseHeader ==
  <<"# This Source Code Form is subject to the terms of the Mozilla Public", NL,
    "# License, v. 2.0. If a copy of the MPL was not distributed with this", NL,
    "# file, You can obtain one at http://mozilla.org/MPL/2.0/.", NL, NL>>

MacBundleId(appId) == <<"MOZ_MACBUNDLE_ID=", Quote>> \o appId \o <<Quote>>

\* The content createConfigureScript writes.
ConfigureScript(config) ==
  LicenseHeader \o <<"MOZ_APP_DISPLAYNAME=", Quote>> \o config.name \o <<Quote, NL>>
                \o MacBundleId(config.appId) \o <<NL>>

\* String.prototype.includes
IncludesSeq(s, t) ==
  \E i \in 0..(Len(s) - Len(t)) : SubSeq(s, i + 1, i + Len(t)) = t

\* escapeString(value)
RECURSIVE escapeString(_)
escapeString(value) ==
  IF value = <<>> THEN <<>>
  ELSE (IF value[1] \in {Backslash, Quote} THEN <<Backslash, value[1]>>
        ELSE <<value[1]>>) \o escapeString(Tail(value))

\* Index of the first quote of content after position i, 0 if none.
RECURSIVE FirstQuote(_, _)
FirstQuote(content, i) ==
  IF i > Len(content) THEN 0
  ELSE IF content[i] = Quote THEN i
  ELSE FirstQuote(content, i + 1)

\* Where /imply_option\("MOZ_APP_VENDOR",\s*"[^"]*"\)/ matches: the value
\* runs up to the first quote, which a closing parenthesis must follow.
VendorMatches(content) ==
  { i \in 1..Len(content) :
      /\ content[i] = OptionOpen
      /\ FirstQuote(content, i + 1) # 0
      /\ FirstQuote(content, i + 1) < Len(content)
      /\ content[FirstQuote(content, i + 1) + 1] = ")" }

\* What String.prototype.replace makes of a replacement string: $$ stands
\* for one dollar sign.  (The other patterns, $&, $` and $', need characters
\* that the strings of the model do not have; the expression has no groups.)
RECURSIVE Substitution(_)
Substitution(replacement) ==
  IF replacement = <<>> THEN <<>>
  ELSE IF Len(replacement) >= 2 /\ replacement[1] = "$" /\ replacement[2] = "$"
  THEN <<"$">> \o Substitution(SubSeq(replacement, 3, Len(replacement)))
  ELSE <<replacement[1]>> \o Substitution(Tail(replacement))

\* patchMozConfigure(engineDir, config)
patchMozConfigure(w, config) ==
  LET content == w.wt[MozConfigure] IN
  IF content = Absent THEN [err |-> "BrandingError", w |-> w]
  ELSE IF VendorMatches(content) = {} THEN [err |-> "BrandingError", w |-> w]
  ELSE LET i == CHOOSE m \in VendorMatches(content) :
                  \A n \in VendorMatches(content) : m <= n
           j == FirstQuote(content, i + 1) + 1
       IN  [err |-> "",
            w |-> [w EXCEPT !.wt[MozConfigure] =
                     SubSeq(content, 1, i - 1)
                       \o Substitution(VendorOption(escapeString(config.vendor)))
                       \o SubSeq(content, j + 1, Len(content))]]

\* setupBranding(engineDir, config).  The unofficial branding of the model
\* has no locales directory, so updateBrandProperties and updateBrandFtl
\* find no file and write nothing.
setupBranding(w, config) ==
  IF w.wt[UnofficialScript] = Absent THEN [err |-> "BrandingError", w |-> w]
  ELSE LET copied == IF w.wt[BrandingScript] = Absent
                     THEN [w EXCEPT !.wt[BrandingScript] = w.wt[UnofficialScript]]
                     ELSE w
           scripted == [copied EXCEPT !.wt[BrandingScript] = ConfigureScript(config)]
       IN  patchMozConfigure(scripted, config)

\* isBrandingSetup(engineDir, config)
isBrandingSetup(w, config) ==
  /\ w.wt[BrandingScript] # Absent
  /\ IncludesSeq(w.wt[BrandingScript], MacBundleId(config.appId))

\* ------------------------------------------------------------------------
\* core/patches.ts: applying the patch set
\* ------------------------------------------------------------------------

\* applySinglePatch(patch, engineDir): every error becomes a failed result.
applySinglePatch(patch, text, w) ==
  Bind(applyPatchIdempotent(text, w), LAMBDA r :
    [result |-> [filename |-> patch.filename, success |-> r.err = "", error |-> r.err],
     w |-> r.w])

\* Variant of the loop without the break: it goes on after a failed result.
RECURSIVE ApplyLoopNoBreak(_, _, _, _, _)
ApplyLoopNoBreak(patches, i, pd, w, results) ==
  IF i > Len(patches) THEN [results |-> results, w |-> w]
  ELSE Bind(applySinglePatch(patches[i], pd[patches[i].filename], w), LAMBDA r :
         ApplyLoopNoBreak(patches, i + 1, pd, r.w, Append(results, r.result)))

\* The loop of applyPatches: stops after the first failed result.
RECURSIVE ApplyLoop(_, _, _, _, _)
ApplyLoop(patches, i, pd, w, results) ==
  IF i > Len(patches) THEN [results |-> results, w |-> w]
  ELSE Bind(applySinglePatch(patches[i], pd[patches[i].filename], w), LAMBDA r :
         IF ~r.result.success
         THEN [results |-> Append(results, r.result), w |-> r.w]
         ELSE ApplyLoop(patches, i + 1, pd, r.w, Append(results, r.result)))

\* applyPatches(patchesDir, engineDir)
applyPatches(dirExists, entries, pd, w) ==
  ApplyLoop(discoverPatches(dirExists, entries), 1, pd, w, <<>>)

\* ------------------------------------------------------------------------
\* commands/export.ts: patch names
\* ------------------------------------------------------------------------

SliceLen == 50
MaxNameLength == 50

IsLowerAlnum(c) == c \in {"x", "y"} \/ IsDigit(c)
IsUpper(c) == c \in {"X"}

\* String.prototype.toLowerCase, character by character.
ToLower(c) == IF c = "X" THEN "x" ELSE c

\* name.trim() is empty
IsBlank(name) == \A i \in 1..Len(name) : name[i] = " "

\* validatePatchName(name): the message, "" for a valid name.
validatePatchName(name) ==
  IF IsBlank(name) THEN "Name is required"
  ELSE IF Len(name) > MaxNameLength THEN "Name must be 50 characters or less"
  ELSE IF ~(\A i \in 1..Len(name) :
              IsLowerAlnum(name[i]) \/ IsUpper(name[i]) \/ name[i] \in {"-", "_", " "})
  THEN "Name can only contain letters, numbers, hyphens, underscores, and spaces"
  ELSE ""

\* replace(/[^a-z0-9]+/g, '-')
RECURSIVE CollapseRuns(_, _)
CollapseRuns(s, i) ==
  IF i > Len(s) THEN <<>>
  ELSE IF IsLowerAlnum(s[i]) THEN <<s[i]>> \o CollapseRuns(s, i + 1)
  ELSE IF i > 1 /\ ~IsLowerAlnum(s[i - 1]) THEN CollapseRuns(s, i + 1)
  ELSE <<"-">> \o CollapseRuns(s, i + 1)

\* replace(/^-+|-+$/g, '')
RECURSIVE TrimHyphens(_)
TrimHyphens(s) ==
  IF s # <<>> /\ s[1] = "-" THEN TrimHyphens(Tail(s))
  ELSE IF s # <<>> /\ s[Len(s)] = "-" THEN TrimHyphens(SubSeq(s, 1, Len(s) - 1))
  ELSE s

\* sanitizeFilename(name)
sanitizeFilename(name) ==
  LET lower == [i \in 1..Len(name) |-> ToLower(name[i])]
      trimmed == TrimHyphens(CollapseRuns(lower, 1))
  IN  SubSeq(trimmed, 1, IF Len(trimmed) < SliceLen THEN Len(trimmed) ELSE SliceLen)

\* `${patchNumber}-${sanitizedName}.patch`
PatchFilename(patchNumber, patchName) ==
  patchNumber \o <<"-">> \o sanitizeFilename(patchName) \o <<".patch">>

\* ------------------------------------------------------------------------
\* Commands.  A command ends with the error it throws ("" if none), a note
\* naming the branch it took, the world and the patches directory it
\* leaves, the patch results it got, and the name of the patch file it is
\* about.
\* ------------------------------------------------------------------------

Res(err, note, w, pex, pd, results, file) ==
  [err |-> err, note |-> note, w |-> w, pex |-> pex, pd |-> pd,
   results |-> results, file |-> file]

\* errors/codes.ts
GENERAL_ERROR == 1
DOWNLOAD_ERROR == 3
GIT_ERROR == 4
PATCH_ERROR == 6

\* Variant of the exit status that tells success from failure and nothing
\* else.
ExitCodeGeneral(err) == IF err = "" THEN 0 ELSE GENERAL_ERROR

\* withErrorHandling: the exit status of the process.  InvalidArgumentError
\* carries ExitCode.INVALID_ARGUMENT, which ExitCode does not define, so
\* process.exit is called without a code.
ExitCodeOf(err) ==
  CASE err = "" -> 0
    [] err = "GeneralError" -> GENERAL_ERROR
    [] err \in {"GitError", "GitNotFoundError", "PatchApplyError"} -> GIT_ERROR
    [] err \in {"PatchError", "BrandingError"} -> PATCH_ERROR
    [] err \in {"DownloadError", "ExtractionError", "VersionNotFoundError",
                "EngineExistsError"} -> DOWNLOAD_ERROR
    [] err = "InvalidArgumentError" -> 0
    [] OTHER -> GENERAL_ERROR

\* results.find((r) => !r.success)
FirstFailed(results) ==
  IF \E i \in 1..Len(results) : ~results[i].success
  THEN LET k == CHOOSE i \in 1..Len(results) :
                  ~results[i].success /\ \A j \in 1..(i - 1) : results[j].success
       IN  <<results[k]>>
  ELSE <<>>

\* Variant of importCommand that resets the workspace before it looks for
\* patches.
importCommandResetFirst(w, pex, pd, entries) ==
  Bind(resetChanges(w), LAMBDA clean :
    IF clean.err # "" THEN Res(clean.err, "", clean.w, pex, pd, <<>>, <<>>)
    ELSE IF ~pex THEN Res("", "no patches directory", clean.w, pex, pd, <<>>, <<>>)
    ELSE IF countPatches(pex, entries) = 0
    THEN Res("", "no patches", clean.w, pex, pd, <<>>, <<>>)
    ELSE Bind(applyPatches(pex, entries, pd, clean.w), LAMBDA r :
           Bind(FirstFailed(r.results), LAMBDA failed :
             IF failed # <<>>
             THEN Res("PatchError", "failed", r.w, pex, pd, r.results, failed[1].filename)
             ELSE Res("", "applied", r.w, pex, pd, r.results, <<>>))))

\* importCommand(projectRoot); entries is what readdir returns.
importCommand(w, pex, pd, entries) ==
  IF ~pex THEN Res("", "no patches directory", w, pex, pd, <<>>, <<>>)
  ELSE IF countPatches(pex, entries) = 0
  THEN Res("", "no patches", w, pex, pd, <<>>, <<>>)
  ELSE Bind(applyPatches(pex, entries, pd, w), LAMBDA r :
         Bind(FirstFailed(r.results), LAMBDA failed :
           IF failed # <<>>
           THEN Res("PatchError", "failed", r.w, pex, pd, r.results, failed[1].filename)
           ELSE Res("", "applied", r.w, pex, pd, r.results, <<>>)))

\* STATUS_DESCRIPTIONS[code] ?? 'changed': the table has the one-letter
\* keys M, A, D, R, C, U, ? and !.
getStatusDescription(code) ==
  CASE code = "M" -> "modified"
    [] code = "A" -> "added"
    [] code = "D" -> "deleted"
    [] code = "R" -> "renamed"
    [] code = "C" -> "copied"
    [] code = "U" -> "unmerged"
    [] code = "?" -> "untracked"
    [] code = "!" -> "ignored"
    [] OTHER -> "changed"

\* The Map of statusCommand: one group per status code, in the order the
\* codes first appear, each with its files in order.
RECURSIVE GroupByStatus(_, _)
GroupByStatus(files, grouped) ==
  IF files = <<>> THEN grouped
  ELSE LET status == files[1].status
           at == {i \in 1..Len(grouped) : grouped[i].status = status}
       IN  GroupByStatus(Tail(files),
             IF at = {}
             THEN Append(grouped, [status |-> status, files |-> <<files[1].file>>])
             ELSE [i \in 1..Len(grouped) |->
                     IF i \in at
                     THEN [grouped[i] EXCEPT !.files = Append(@, files[1].file)]
                     ELSE grouped[i]])

\* What statusCommand displays: for each group its description line and its
\* files.
Displayed(grouped) ==
  [i \in 1..Len(grouped) |->
     [status |-> grouped[i].status,
      description |-> getStatusDescription(grouped[i].status),
      files |-> grouped[i].files]]

\* statusCommand(projectRoot)
statusCommand(w, pex, pd) ==
  LET files == getStatusWithCodes(w) IN
  IF files.err # "" THEN Res(files.err, "", files.w, pex, pd, <<>>, <<>>)
  ELSE IF Len(files.val) = 0 THEN Res("", "clean", files.w, pex, pd, <<>>, <<>>)
  ELSE Res("", "listed", files.w, pex, pd,
           Displayed(GroupByStatus(files.val, <<>>)), <<>>)

\* resetCommand(projectRoot, options); confirmed is the answer to the
\* prompt, asked only without --force.
resetCommand(w, pex, pd, force, confirmed) ==
  LET changes == hasChanges(w) IN
  IF changes.err # "" THEN Res(changes.err, "", changes.w, pex, pd, <<>>, <<>>)
  ELSE IF ~changes.val THEN Res("", "clean", changes.w, pex, pd, <<>>, <<>>)
  ELSE IF ~force /\ ~confirmed
  THEN Res("", "cancelled", changes.w, pex, pd, <<>>, <<>>)
  ELSE LET r == resetChanges(changes.w) IN
       IF r.err # "" THEN Res(r.err, "", r.w, pex, pd, <<>>, <<>>)
       ELSE Res("", "reset", r.w, pex, pd, <<>>, <<>>)

\* modifiedFiles.includes(file)
Includes(files, file) == \E i \in 1..Len(files) : files[i] = file

\* discard that runs the checkout without looking at the status.
discardCommandUnchecked(w, pex, pd, file) ==
  LET modifiedFiles == getModifiedFiles(w) IN
  IF modifiedFiles.err # ""
  THEN Res(modifiedFiles.err, "", modifiedFiles.w, pex, pd, <<>>, <<>>)
  ELSE LET r == discardFile(modifiedFiles.w, file) IN
       IF r.err # "" THEN Res(r.err, "", r.w, pex, pd, <<>>, <<>>)
       ELSE Res("", "discarded", r.w, pex, pd, <<>>, <<>>)

\* discardCommand(projectRoot, file)
discardCommand(w, pex, pd, file) ==
  LET modifiedFiles == getModifiedFiles(w) IN
  IF modifiedFiles.err # ""
  THEN Res(modifiedFiles.err, "", modifiedFiles.w, pex, pd, <<>>, <<>>)
  ELSE IF ~Includes(modifiedFiles.val, file)
  THEN Res("", "nothing to discard", modifiedFiles.w, pex, pd, <<>>, <<>>)
  ELSE LET r == discardFile(modifiedFiles.w, file) IN
       IF r.err # "" THEN Res(r.err, "", r.w, pex, pd, <<>>, <<>>)
       ELSE Res("", "discarded", r.w, pex, pd, <<>>, <<>>)

\* The branding step of buildCommand and packageCommand.
\* The branding step of build and package for the branding fields of
\* forge.json.
brandingStepOf(w, pex, pd, config) ==
  IF isBrandingSetup(w, config)
  THEN Res("", "branding present", w, pex, pd, <<>>, <<>>)
  ELSE LET r == setupBranding(w, config) IN
       IF r.err # "" THEN Res(r.err, "", r.w, pex, pd, <<>>, <<>>)
       ELSE Res("", "branding configured", r.w, pex, pd, <<>>, <<>>)

brandingStep(w, pex, pd) == brandingStepOf(w, pex, pd, Config)

\* The end shared by export and export-all: ensureDir, getNextPatchNumber,
\* writeText.  patchNumber is what getNextPatchNumber returns for the
\* patches directory.
WritePatch(w, pd, patchNumber, patchName, diff) ==
  LET patchFilename == PatchFilename(patchNumber, patchName)
  IN  Res("", "exported", w, TRUE,
          [n \in DOMAIN pd \cup {patchFilename} |->
             IF n = patchFilename THEN diff ELSE pd[n]],
          <<>>, patchFilename)

\* No name: the option is missing or the empty string.
NoName == <<>>

\* What the prompt for a name returns when the user cancels it.
Cancelled == <<"CANCEL">>

\* export-all without its two early returns.
exportAllCommandUnguarded(w, pex, pd, patchNumber, name, prompt) ==
  LET diff == getAllDiff(hasChanges(w).w) IN
  IF diff.err # "" THEN Res(diff.err, "", diff.w, pex, pd, <<>>, <<>>)
  ELSE IF name = NoName /\ prompt = Cancelled
  THEN Res("", "cancelled", diff.w, pex, pd, <<>>, <<>>)
  ELSE WritePatch(diff.w, pd, patchNumber,
                  IF name = NoName THEN prompt ELSE name, diff.val)

\* exportAllCommand(projectRoot, options); prompt is what the user answers
\* when asked for a name.
exportAllCommand(w, pex, pd, patchNumber, name, prompt) ==
  LET changes == hasChanges(w) IN
  IF changes.err # "" THEN Res(changes.err, "", changes.w, pex, pd, <<>>, <<>>)
  ELSE IF ~changes.val THEN Res("", "nothing to export", changes.w, pex, pd, <<>>, <<>>)
  ELSE LET diff == getAllDiff(changes.w) IN
       IF diff.err # "" THEN Res(diff.err, "", diff.w, pex, pd, <<>>, <<>>)
       ELSE IF ~NonBlank(diff.val)
       THEN Res("", "nothing to export", diff.w, pex, pd, <<>>, <<>>)
       ELSE IF name = NoName /\ prompt = Cancelled
       THEN Res("", "cancelled", diff.w, pex, pd, <<>>, <<>>)
       ELSE WritePatch(diff.w, pd, patchNumber,
                       IF name = NoName THEN prompt ELSE name, diff.val)

\* Variant of FindStatus that takes the first entry of the status, whatever
\* file it is about.
FindStatusFirst(fileStatuses, file) ==
  IF fileStatuses = <<>> THEN <<>> ELSE <<fileStatuses[1]>>

\* fileStatuses.find((s) => s.file === file)
FindStatus(fileStatuses, file) ==
  IF \E i \in 1..Len(fileStatuses) : fileStatuses[i].file = file
  THEN <<fileStatuses[CHOOSE i \in 1..Len(fileStatuses) :
                        fileStatuses[i].file = file
                        /\ \A j \in 1..(i - 1) : fileStatuses[j].file # file]>>
  ELSE <<>>

\* file.endsWith('/')
IsDirectoryPath(file) == file \in {"d/"}

\* exportCommand(projectRoot, file, options); isInteractive is
\* process.stdin.isTTY && process.stdout.isTTY.
exportCommand(w, pex, pd, patchNumber, file, name, isInteractive, prompt) ==
  LET fileStatuses == getStatusWithCodes(w)
      fileStatus == FindStatus(fileStatuses.val, file)
  IN
  IF fileStatuses.err # ""
  THEN Res(fileStatuses.err, "", fileStatuses.w, pex, pd, <<>>, <<>>)
  ELSE IF fileStatus = <<>>
  THEN Res("GeneralError", "no changes", fileStatuses.w, pex, pd, <<>>, <<>>)
  ELSE IF IsDirectoryPath(file)
  THEN Res("GeneralError", "directory", fileStatuses.w, pex, pd, <<>>, <<>>)
  ELSE LET isNewFile == fileStatus[1].status = "??"
           diff == IF isNewFile
                   THEN [err |-> "",
                         val |-> generateNewFileDiff(w.wt[file], file),
                         w |-> fileStatuses.w]
                   ELSE getFileDiff(fileStatuses.w, file)
       IN  IF diff.err # "" THEN Res(diff.err, "", diff.w, pex, pd, <<>>, <<>>)
           ELSE IF ~NonBlank(diff.val)
           THEN Res("GeneralError", "no diff", diff.w, pex, pd, <<>>, <<>>)
           ELSE IF name # NoName /\ validatePatchName(name) # ""
           THEN Res("InvalidArgumentError", "invalid name", diff.w, pex, pd, <<>>, <<>>)
           ELSE IF name = NoName /\ ~isInteractive
           THEN Res("InvalidArgumentError", "name required", diff.w, pex, pd, <<>>, <<>>)
           ELSE IF name = NoName /\ prompt = Cancelled
           THEN Res("", "cancelled", diff.w, pex, pd, <<>>, <<>>)
           ELSE WritePatch(diff.w, pd, patchNumber,
                           IF name = NoName THEN prompt ELSE name, diff.val)

\* ------------------------------------------------------------------------
\* Bounds and inputs
\* ------------------------------------------------------------------------

\* Changes that add to the project: edits the user makes by hand in the
\* engine directory, git add, changes of PATH, and patch files written by
\* export and export-all.
MaxEdits == 2

\* Files in the patches directory.
MaxPatchFiles == 3

\* What the user writes into a path.
WriteChoices(p) ==
  IF p = "f" THEN {CB, CC}
  ELSE IF p = "g" THEN {CB, CBnoNL}
  ELSE {CB}

\* Patch files written by hand (with git diff): name and text.
AuthoredName(prefix) == prefix \o <<"y", ".patch">>

AuthoredFiles ==
  { [name |-> AuthoredName(<<"0", "0", "1", "-">>),
     text |-> GitDiffText(Baseline, [Baseline EXCEPT !["g"] = CB], Paths)],
    [name |-> AuthoredName(<<"0", "0", "2", "-">>),
     text |-> GitDiffText(Baseline, [Baseline EXCEPT !["f"] = CB], Paths)],
    [name |-> AuthoredName(<<"0", "0", "3", "-">>),
     text |-> GitDiffText([Baseline EXCEPT !["f"] = CB],
                          [Baseline EXCEPT !["f"] = CC], Paths)],
    [name |-> AuthoredName(<<>>),
     text |-> GitDiffText(Baseline, [Baseline EXCEPT !["d/u"] = CB], Paths)] }

\* The patches directory of the project at the start: up to MaxPatchFiles
\* of the authored files.
PatchSets ==
  { [n \in {a.name : a \in S} |-> (CHOOSE a \in S : a.name = n).text] :
      S \in {T \in SUBSET AuthoredFiles : Cardinality(T) <= MaxPatchFiles} }

\* Names given to export and export-all, or typed at the prompt.
NameChoices == { <<"x">> }

\* The --name option, the terminal and the answer to the prompt for a
\* name, which is reached only without the option.
ExportInputs ==
  { [name |-> n, isInteractive |-> TRUE, prompt |-> Cancelled] : n \in NameChoices }
  \cup { [name |-> NoName, isInteractive |-> FALSE, prompt |-> a] : a \in NameChoices }
  \cup { [name |-> NoName, isInteractive |-> TRUE, prompt |-> a] :
           a \in NameChoices \cup {Cancelled} }

\* reset: --force, or the answer to the confirmation prompt.
ResetInputs ==
  { [force |-> TRUE, confirmed |-> FALSE] }
  \cup { [force |-> FALSE, confirmed |-> c] : c \in BOOLEAN }

\* The file argument of export and discard.
FileArgs == EditPaths \cup {"d/"}

\* The orders in which readdir may return the files of the patches directory.
RECURSIVE Orders(_)
Orders(names) ==
  IF names = {} THEN {<<>>}
  ELSE UNION { { <<x>> \o s : s \in Orders(names \ {x}) } : x \in names }

Listings(pd) ==
  { [i \in 1..Len(s) |-> [name |-> s[i], isFile |-> TRUE]] : s \in Orders(DOMAIN pd) }

\* ------------------------------------------------------------------------
\* Initial state: the project after setup and download.  The engine
\* directory is a repository whose only commit is the pristine source.
\* ------------------------------------------------------------------------

NoChain == [tag |-> "none", wt |-> Baseline, file |-> <<>>]

\* ------------------------------------------------------------------------
\* core/config.ts, commands/config.ts: forge.json
\* ------------------------------------------------------------------------

\* JSON values of forge.json and state.json.  A number carries the text
\* String() gives for it.
JString(s) == [t |-> "string", v |-> s]
JNumber(text) == [t |-> "number", v |-> text]
Undefined == [t |-> "undefined", v |-> <<>>]

\* The index after the digits of s that start at index i.
RECURSIVE AfterDigits(_, _)
AfterDigits(s, i) ==
  IF i <= Len(s) /\ IsDigit(s[i]) THEN AfterDigits(s, i + 1) ELSE i

\* The fraction digits of a number without the zeros at their end.
RECURSIVE Significant(_)
Significant(frac) ==
  IF frac # <<>> /\ frac[Len(frac)] = "0"
  THEN Significant(SubSeq(frac, 1, Len(frac) - 1))
  ELSE frac

\* The JSON number grammar over the characters of the model: an integer
\* part without a leading zero, and an optional fraction.
IsJsonNumber(s) ==
  LET i == AfterDigits(s, 1) IN
    /\ i > 1
    /\ s[1] = "0" => i = 2
    /\ \/ i = Len(s) + 1
       \/ /\ i <= Len(s)
          /\ s[i] = "."
          /\ AfterDigits(s, i + 1) > i + 1
          /\ AfterDigits(s, i + 1) = Len(s) + 1

NumberText(s) ==
  LET i == AfterDigits(s, 1)
      frac == Significant(SubSeq(s, i + 1, Len(s)))
  IN SubSeq(s, 1, i - 1) \o (IF frac = <<>> THEN <<>> ELSE <<".">> \o frac)

IsJsonString(s) ==
  /\ Len(s) >= 2
  /\ s[1] = Quote
  /\ s[Len(s)] = Quote
  /\ \A i \in 2..(Len(s) - 1) : s[i] # Quote

\* parseValue(value): JSON.parse, and the text itself when that throws.
parseValue(value) ==
  IF IsJsonNumber(value) THEN JNumber(NumberText(value))
  ELSE IF IsJsonString(value) THEN JString(SubSeq(value, 2, Len(value) - 1))
  ELSE JString(value)

\* formatValue(value) of a value that is not an object.
formatValue(value) == IF value.t = "undefined" THEN <<"(not set)">> ELSE value.v

isString(value) == value.t = "string"
isNumber(value) == value.t = "number"

\* isValidFirefoxVersion(version): /^\d+\.\d+(b\d+)?(\.\d+)?(esr)?$/
isValidFirefoxVersion(version) ==
  LET n == Len(version)
      i1 == AfterDigits(version, 1)
      i2 == AfterDigits(version, i1 + 1)
      b == i2 < n /\ version[i2] = "b" /\ AfterDigits(version, i2 + 1) > i2 + 1
      i3 == IF b THEN AfterDigits(version, i2 + 1) ELSE i2
      d == i3 < n /\ version[i3] = "." /\ AfterDigits(version, i3 + 1) > i3 + 1
      i4 == IF d THEN AfterDigits(version, i3 + 1) ELSE i3
      esr == i4 + 2 = n /\ SubSeq(version, i4, n) = <<"e", "s", "r">>
  IN /\ i1 > 1
     /\ i1 <= n
     /\ version[i1] = "."
     /\ i2 > i1 + 1
     /\ i4 = n + 1 \/ esr

\* The keys of forge.json the model follows, in dot notation; vendor,
\* appId and binaryName stay as setup wrote them.
ConfigKeys == {"name", "firefox.version", "firefox.product", "build.jobs"}

validProducts == {<<"firefox">>, <<"firefox-esr">>, <<"firefox-beta">>}

\* validateConfig(data): the message of the Error it throws, "" if none.
validateConfig(data) ==
  IF ~isString(data["name"]) THEN "name must be a string"
  ELSE IF ~isString(data["firefox.version"]) THEN "firefox.version must be a string"
  ELSE IF ~isValidFirefoxVersion(data["firefox.version"].v)
    THEN "firefox.version must be a valid Firefox version"
  ELSE IF ~isString(data["firefox.product"]) THEN "firefox.product must be a string"
  ELSE IF data["firefox.product"].v \notin validProducts
    THEN "firefox.product must be one of"
  ELSE IF data["build.jobs"].t # "undefined" /\ ~isNumber(data["build.jobs"])
    THEN "build.jobs must be a number"
  ELSE ""

\* loadConfig(root): the error it throws, "" if none (forge.json exists).
loadConfig(r) == IF validateConfig(r.config) = "" THEN "" ELSE "Error"

\* What a run of config leaves: the error, the line it prints, forge.json.
ConfigRes(err, line, r) == [err |-> err, line |-> line, root |-> r]

\* The optional argument of config: the text given, or nothing.
Given(text) == [given |-> TRUE, text |-> text]
NotGiven == [given |-> FALSE, text |-> <<>>]

\* configCommand(projectRoot, key, value)
configCommand(r, key, value) ==
  IF loadConfig(r) # "" THEN ConfigRes(loadConfig(r), <<>>, r)
  ELSE IF ~value.given
  THEN IF r.config[key].t = "undefined"
       THEN ConfigRes("", <<"not found">>, r)
       ELSE ConfigRes("", <<key, " = ">> \o formatValue(r.config[key]), r)
  ELSE ConfigRes("", <<"Set ", key, " = ">> \o formatValue(parseValue(value.text)),
                 [r EXCEPT !.config[key] = parseValue(value.text)])

\* ------------------------------------------------------------------------
\* core/firefox.ts, commands/download.ts: the source download
\* ------------------------------------------------------------------------

V146 == <<"1", "4", "6", ".", "0">>
V132 == <<"1", "3", "2", ".", "0">>
V147b1 == <<"1", "4", "7", ".", "0", "b", "1">>

\* The versions a tarball can be cached for.
Versions == {V146, V132, V147b1}

\* forge.json as setup writes it.
SetupConfig ==
  [k \in ConfigKeys |->
     CASE k = "firefox.version" -> JString(V146)
       [] k = "firefox.product" -> JString(<<"firefox">>)
       [] k = "name" -> JString(<<"N">>)
       [] OTHER -> Undefined]

\* The project root after setup and a complete download: the engine
\* directory is a repository, the tarball of the version is cached, and
\* state.json names the version.
Downloaded ==
  [config |-> SetupConfig,
   engine |-> "repository",
   cache |-> [v \in Versions |-> IF v = V146 THEN "complete" ELSE "none"],
   downloadedVersion |-> JString(V146)]

\* An engine directory that does not exist.
NoTree == [p \in Paths |-> Absent]

\* What the server and the connection do to one fetch of the tarball.
Fetches == {"ok", "not found", "http error", "interrupted"}

\* downloadFile(url, destPath): the error and the tarball at destPath.  The
\* response is checked before the file is created; the body is streamed
\* into destPath itself.
downloadFile(fetch) ==
  CASE fetch = "ok" -> [err |-> "", tarball |-> "complete"]
    [] fetch = "not found" -> [err |-> "VersionNotFoundError", tarball |-> "none"]
    [] fetch = "http error" -> [err |-> "DownloadError", tarball |-> "none"]
    [] OTHER -> [err |-> "Error", tarball |-> "partial"]

\* extractTarXz(archivePath, destDir): tar rejects a truncated archive.
extractTarXz(tarball) == IF tarball = "complete" THEN "" ELSE "ExtractionError"

\* What a run of download leaves: the error, the project root, the engine
\* repository, and whether the run fetched the tarball.
DownloadRes(err, r, w, fetched) ==
  [err |-> err, root |-> r, w |-> w, fetched |-> fetched]

\* downloadFirefoxSource(version, product, destDir, cacheDir): the tarball
\* is fetched unless its path exists, extracted beside the engine directory
\* and moved into place.
downloadFirefoxSource(r, w, version, fetch) ==
  LET got == IF r.cache[version] # "none"
             THEN [err |-> "", tarball |-> r.cache[version]]
             ELSE downloadFile(fetch)
      r1 == [r EXCEPT !.cache[version] = got.tarball]
      fetched == r.cache[version] = "none"
  IN IF got.err # "" THEN DownloadRes(got.err, r1, w, fetched)
     ELSE IF extractTarXz(got.tarball) # ""
       THEN DownloadRes("ExtractionError", r1, w, fetched)
     ELSE DownloadRes("", [r1 EXCEPT !.engine = "extracted"],
                      [w EXCEPT !.head = NoTree, !.index = NoTree,
                                !.commits = 0, !.wt = Baseline], fetched)

\* initRepository(dir, branch): git init, add -A and the first commit.
initRepository(w) ==
  IF ensureGit(w) # "" THEN [err |-> ensureGit(w), w |-> w]
  ELSE [err |-> "", w |-> [w EXCEPT !.head = w.wt, !.index = w.wt, !.commits = 1]]

\* downloadCommand without the check of the engine directory.
downloadCommandUnchecked(r, w, force, fetch) ==
  LET version == r.config["firefox.version"].v
      r0 == [r EXCEPT !.engine = "absent"]
      w0 == [w EXCEPT !.head = NoTree, !.index = NoTree, !.commits = 0,
                      !.wt = NoTree]
      src == downloadFirefoxSource(r0, w0, version, fetch)
      git == initRepository(src.w)
  IN IF loadConfig(r) # "" THEN DownloadRes(loadConfig(r), r, w, FALSE)
     ELSE IF src.err # "" THEN src
     ELSE IF git.err # "" THEN DownloadRes(git.err, src.root, src.w, src.fetched)
     ELSE DownloadRes("", [src.root EXCEPT !.engine = "repository",
                                           !.downloadedVersion = JString(version)],
                      git.w, src.fetched)

\* downloadCommand(projectRoot, options)
downloadCommand(r, w, force, fetch) ==
  LET version == r.config["firefox.version"].v
      r0 == [r EXCEPT !.engine = "absent"]
      w0 == [w EXCEPT !.head = NoTree, !.index = NoTree, !.commits = 0,
                      !.wt = NoTree]
      src == downloadFirefoxSource(r0, w0, version, fetch)
      git == initRepository(src.w)
  IN IF loadConfig(r) # "" THEN DownloadRes(loadConfig(r), r, w, FALSE)
     ELSE IF r.engine # "absent" /\ ~force
       THEN DownloadRes("EngineExistsError", r, w, FALSE)
     ELSE IF src.err # "" THEN src
     ELSE IF git.err # "" THEN DownloadRes(git.err, src.root, src.w, src.fetched)
     ELSE DownloadRes("", [src.root EXCEPT !.engine = "repository",
                                           !.downloadedVersion = JString(version)],
                      git.w, src.fetched)

Idle ==
  [cmd |-> "none", arg |-> "", in |-> <<>>, err |-> "", exit |-> 0, note |-> "",
   results |-> <<>>, calls |-> <<>>, file |-> <<>>]

Init ==
  /\ gitOnPath = TRUE
  /\ head = Baseline
  /\ commits = 1
  /\ index = Baseline
  /\ wt = Baseline
  /\ patchesExists \in BOOLEAN
  /\ patchesExists \/ patchDir = << >>
  /\ patchDir \in PatchSets
  /\ edits = 0
  /\ last = Idle
  /\ chain = NoChain
  /\ listing = [dirExists |-> FALSE, entries |-> <<>>, op |-> "none",
                patches |-> <<>>, next |-> <<>>, count |-> 0]
  /\ root = Downloaded

\* ------------------------------------------------------------------------
\* Which sequence the last commands form:
\*   "exported"    export-all wrote chain.file from working tree chain.wt,
\*                 with nothing staged
\*   "exported, reset"   ... and reset ran to completion right after
\*   "round trip"        ... and import ran right after
\*   "imported"    import applied a non-empty patch set to the pristine
\*                 workspace and left working tree chain.wt
\*   "imported twice"    ... and import ran again right after
\*   "imported, edited"  ... or files were edited by hand after the import
\*   "extended"          ... and export-all then wrote chain.file from
\*                       working tree chain.wt, with nothing staged
\*   "extended, reset"   ... and reset ran to completion right after
\*   "extended round trip"   ... and import ran right after
\* ------------------------------------------------------------------------
ChainNext(cmd, r) ==
  CASE cmd = "export-all" /\ r.note = "exported" /\ index = head
         /\ chain.tag # "imported, edited" ->
         [tag |-> "exported", wt |-> wt, file |-> r.file]
    [] cmd = "export-all" /\ r.note = "exported" /\ index = head
         /\ chain.tag = "imported, edited" ->
         [tag |-> "extended", wt |-> wt, file |-> r.file]
    [] cmd = "reset" /\ r.note = "reset" /\ chain.tag = "extended" ->
         [chain EXCEPT !.tag = "extended, reset"]
    [] cmd = "import" /\ chain.tag = "extended, reset" ->
         [chain EXCEPT !.tag = "extended round trip"]
    [] cmd = "reset" /\ r.note = "reset" /\ chain.tag = "exported" ->
         [chain EXCEPT !.tag = "exported, reset"]
    [] cmd = "import" /\ chain.tag = "exported, reset" ->
         [chain EXCEPT !.tag = "round trip"]
    [] cmd = "import" /\ chain.tag = "imported" ->
         [chain EXCEPT !.tag = "imported twice"]
    [] cmd = "import" /\ chain.tag \notin {"imported", "exported, reset", "extended, reset"}
         /\ r.note = "applied" /\ wt = head /\ index = head ->
         [tag |-> "imported", wt |-> r.w.wt, file |-> <<>>]
    [] OTHER -> NoChain

\* ------------------------------------------------------------------------
\* Actions
\* ------------------------------------------------------------------------

TheWorld == World(gitOnPath, head, commits, index, wt)

\* A command ran with file argument arg and options and answers in, and
\* ended with r.
Finish(cmd, arg, in, r) ==
  /\ head' = r.w.head
  /\ commits' = r.w.commits
  /\ index' = r.w.index
  /\ wt' = r.w.wt
  /\ patchesExists' = r.pex
  /\ patchDir' = r.pd
  /\ last' = [cmd |-> cmd, arg |-> arg, in |-> in, err |-> r.err,
              exit |-> ExitCodeOf(r.err),
              note |-> r.note, results |-> r.results, calls |-> r.w.calls,
              file |-> r.file]
  /\ chain' = ChainNext(cmd, r)
  /\ edits' = IF r.note \in {"exported", "branding configured"} THEN edits + 1 ELSE edits
  /\ UNCHANGED <<gitOnPath, listing, root>>

\* The commands read the patches directory with readdir, which may return
\* the files in any order.
\* importCommand uses the listing only through discoverPatches, so listings
\* with the same discovery result give the same run: one listing stands for
\* each discovery result.
DiscoveryListings ==
  LET all == Listings(patchDir)
      found == { discoverPatches(patchesExists, e) : e \in all }
  IN  { CHOOSE e \in all : discoverPatches(patchesExists, e) = d : d \in found }

Import ==
  \E r \in { importCommand(TheWorld, patchesExists, patchDir, entries) :
               entries \in DiscoveryListings } :
    Finish("import", "", <<>>, r)

Status ==
  \E r \in {statusCommand(TheWorld, patchesExists, patchDir)} :
    Finish("status", "", <<>>, r)

Reset ==
  \E in \in ResetInputs :
  \E r \in {resetCommand(TheWorld, patchesExists, patchDir, in.force, in.confirmed)} :
    Finish("reset", "", in, r)

Discard ==
  \E file \in FileArgs :
  \E r \in {discardCommand(TheWorld, patchesExists, patchDir, file)} :
    Finish("discard", file, <<>>, r)

\* What getNextPatchNumber may return once ensureDir has run, over the
\* orders in which readdir may return the files.
NextPatchNumbers == { getNextPatchNumber(TRUE, entries) : entries \in Listings(patchDir) }

\* The patches directory has room for the file an export writes.
HasRoom == Cardinality(DOMAIN patchDir) < MaxPatchFiles

\* export-all runs with one of the inputs ins.
RunExportAll(ins) ==
  /\ \E patchNumber \in NextPatchNumbers :
     \E in \in ins :
     \E r \in {exportAllCommand(TheWorld, patchesExists, patchDir, patchNumber,
                                 in.name, in.prompt)} :
       Finish("export-all", "", in, r)

ExportAll ==
  /\ edits < MaxEdits
  /\ HasRoom
  /\ RunExportAll(ExportInputs)

\* export <file> runs with one of the inputs ins.
RunExport(ins) ==
  /\ \E patchNumber \in NextPatchNumbers :
     \E file \in FileArgs :
     \E in \in ins :
     \E r \in {exportCommand(TheWorld, patchesExists, patchDir, patchNumber, file,
                             in.name, in.isInteractive, in.prompt)} :
       Finish("export", file, in, r)

Export ==
  /\ edits < MaxEdits
  /\ HasRoom
  /\ RunExport(ExportInputs)

\* build or package runs up to the end of its branding step.
BrandingSetup ==
  /\ edits < MaxEdits
  /\ \E r \in {brandingStep(TheWorld, patchesExists, patchDir)} :
       Finish("build", "", <<>>, r)

\* The user edits the engine directory or the patches directory by hand.
ByHand ==
  /\ last' = Idle
  /\ chain' = IF chain.tag \in {"imported", "imported, edited"}
              THEN [chain EXCEPT !.tag = "imported, edited"]
              ELSE NoChain
  /\ UNCHANGED <<head, commits, listing, root>>

HandWrite ==
  /\ \E p \in EditPaths : \E c \in WriteChoices(p) :
       /\ wt[p] # c
       /\ wt' = [wt EXCEPT ![p] = c]
  /\ edits' = edits + 1
  /\ ByHand
  /\ UNCHANGED <<gitOnPath, index, patchesExists, patchDir>>

UserWrite ==
  /\ edits < MaxEdits
  /\ HandWrite

HandDelete ==
  /\ \E p \in EditPaths :
       /\ wt[p] # Absent
       /\ wt' = [wt EXCEPT ![p] = Absent]
  /\ edits' = edits + 1
  /\ ByHand
  /\ UNCHANGED <<gitOnPath, index, patchesExists, patchDir>>

UserDelete ==
  /\ edits < MaxEdits
  /\ HandDelete

\* git add <path>, run by hand.
HandStage ==
  /\ gitOnPath
  /\ \E p \in EditPaths :
       /\ wt[p] # Absent
       /\ index[p] # wt[p]
       /\ index' = [index EXCEPT ![p] = wt[p]]
  /\ edits' = edits + 1
  /\ ByHand
  /\ UNCHANGED <<gitOnPath, wt, patchesExists, patchDir>>

UserStage ==
  /\ edits < MaxEdits
  /\ HandStage

\* git disappears from PATH, or comes back.
HandPath ==
  /\ gitOnPath' = ~gitOnPath
  /\ edits' = edits + 1
  /\ ByHand
  /\ UNCHANGED <<index, wt, patchesExists, patchDir>>

PathChange ==
  /\ edits < MaxEdits
  /\ HandPath

Next ==
  \/ Import
  \/ Status
  \/ Reset
  \/ Discard
  \/ ExportAll
  \/ Export
  \/ BrandingSetup
  \/ UserWrite
  \/ UserDelete
  \/ UserStage
  \/ PathChange

Spec == Init /\ [][Next]_vars

\* ------------------------------------------------------------------------
\* export and export-all after up to MaxHandEdits changes made by hand in
\* the engine directory; git stays on PATH and nothing is imported.
\* ------------------------------------------------------------------------

MaxHandEdits == 3

EditWrite ==
  /\ edits < MaxHandEdits
  /\ HandWrite

EditDelete ==
  /\ edits < MaxHandEdits
  /\ HandDelete

EditStage ==
  /\ edits < MaxHandEdits
  /\ HandStage

\* An export counts as a change too (it may overwrite a patch file, so the
\* room of the directory does not bound it); one may follow the last change
\* made by hand.
ExportFile ==
  /\ edits <= MaxHandEdits
  /\ HasRoom
  /\ RunExport(ExportInputs)

ExportEverything ==
  /\ edits <= MaxHandEdits
  /\ HasRoom
  /\ RunExportAll(ExportInputs)

NextExport ==
  \/ EditWrite
  \/ EditDelete
  \/ EditStage
  \/ ExportFile
  \/ ExportEverything

SpecExport == Init /\ [][NextExport]_vars

\* ------------------------------------------------------------------------
\* Export of one new untracked file of any content: the file g is created
\* by hand, then export g or export-all runs once.  A content is a sequence of
\* at most MaxContentLen pieces, each a newline or a piece of text without
\* newline.
MaxContentLen == 4

Pieces == {"hello", "b", NL}

FileContents == UNION { [1..n -> Pieces] : n \in 0..MaxContentLen }

CreateFile ==
  /\ edits = 0
  /\ \E c \in FileContents : wt' = [wt EXCEPT !["g"] = c]
  /\ edits' = edits + 1
  /\ ByHand
  /\ UNCHANGED <<gitOnPath, index, patchesExists, patchDir>>

ExportNewFile ==
  /\ edits = 1
  /\ last = Idle
  /\ HasRoom
  /\ RunExport(ExportInputs)

ExportNewFiles ==
  /\ edits = 1
  /\ last = Idle
  /\ HasRoom
  /\ RunExportAll(ExportInputs)

NextNewFile ==
  \/ CreateFile
  \/ ExportNewFile
  \/ ExportNewFiles

SpecNewFile == Init /\ [][NextNewFile]_vars

\* ------------------------------------------------------------------------
\* setupBranding run directly, with any branding configuration: the name
\* and the vendor are any strings (validateConfig asks for strings only),
\* here of at most MaxVendorLen characters for the vendor.  In between,
\* browser/moz.configure may be rewritten or deleted by hand.  At most
\* MaxBrandingSteps successful runs and changes by hand are made.
MaxVendorLen == 2

MaxBrandingSteps == 2

VendorChars == {"V", Quote, Backslash, "$"}

BrandingConfigs ==
  { [name |-> n, vendor |-> v, appId |-> <<"A">>, binaryName |-> "b"] :
      n \in {<<"N">>, <<Quote>>},
      v \in UNION { [1..k -> VendorChars] : k \in 0..MaxVendorLen } }

MozConfigureChoices == {<<"#", NL>>, Absent}

RunSetupBranding ==
  /\ edits < MaxBrandingSteps
  /\ \E config \in BrandingConfigs :
     \E r \in {setupBranding(TheWorld, config)} :
       Finish("branding", "", config,
              Res(r.err, IF r.err = "" THEN "branding configured" ELSE "",
                  r.w, patchesExists, patchDir, <<>>, <<>>))

EditMozConfigure ==
  /\ edits < MaxBrandingSteps
  /\ \E c \in MozConfigureChoices :
       /\ wt[MozConfigure] # c
       /\ wt' = [wt EXCEPT ![MozConfigure] = c]
  /\ edits' = edits + 1
  /\ ByHand
  /\ UNCHANGED <<gitOnPath, index, patchesExists, patchDir>>

\* build with any branding fields in forge.json.
RunBuild ==
  /\ edits < MaxBrandingSteps
  /\ \E config \in BrandingConfigs :
     \E r \in {brandingStepOf(TheWorld, patchesExists, patchDir, config)} :
       Finish("build", "", config, r)

NextBranding ==
  \/ RunSetupBranding
  \/ RunBuild
  \/ EditMozConfigure

SpecBranding == Init /\ [][NextBranding]_vars

\* ------------------------------------------------------------------------
\* One run of export or export-all of a new file under any patch name, given with
\* --name or typed at the prompt: every name of 1..MaxNameLen characters,
\* and long names made of SliceLen - 2 letters after at most one character
\* and before at most MaxAffixLen characters (so that the cut at SliceLen
\* characters falls before, on and after a hyphen).
MaxNameLen == 3

MaxAffixLen == 2

NameChars == {"x", "y", "X", "-", "!"}

Filler == [i \in 1..(SliceLen - 2) |-> "x"]

PatchNames ==
  (UNION { [1..n -> NameChars] : n \in 1..MaxNameLen })
  \cup { a \o Filler \o b :
           a \in UNION { [1..n -> NameChars] : n \in 0..1 },
           b \in UNION { [1..n -> NameChars] : n \in 0..MaxAffixLen } }

NamedInputs ==
  { [name |-> n, isInteractive |-> TRUE, prompt |-> Cancelled] : n \in PatchNames }
  \cup { [name |-> NoName, isInteractive |-> TRUE, prompt |-> n] : n \in PatchNames }

AddFile ==
  /\ edits = 0
  /\ wt' = [wt EXCEPT !["g"] = CB]
  /\ edits' = edits + 1
  /\ ByHand
  /\ UNCHANGED <<gitOnPath, index, patchesExists, patchDir>>

ExportNamed ==
  /\ edits = 1
  /\ last = Idle
  /\ RunExport(NamedInputs)

ExportAllNamed ==
  /\ edits = 1
  /\ last = Idle
  /\ RunExportAll(NamedInputs)

NextNames ==
  \/ AddFile
  \/ ExportNamed
  \/ ExportAllNamed

SpecNames == Init /\ [][NextNames]_vars

\* ------------------------------------------------------------------------
\* The patch-set functions on their own: a directory is filled entry by
\* entry, in any enumeration order, and discoverPatches, countPatches and
\* getNextPatchNumber read it.
\* ------------------------------------------------------------------------

\* Entries of the directory read.
MaxEntries == 3

\* Names of directory entries, each with the number its prefix denotes
\* (-1: a patch file without a numeric prefix, -2: not a patch file).
EntryNames ==
  { [num |-> 1, isFile |-> TRUE, name |-> <<"0", "0", "1", "-", "x", ".patch">>],
    [num |-> 1, isFile |-> TRUE, name |-> <<"1", "-", "y", ".patch">>],
    [num |-> 3, isFile |-> TRUE, name |-> <<"0", "0", "3", "-", "x", ".patch">>],
    [num |-> 7, isFile |-> TRUE, name |-> <<"0", "0", "7", "-", "x", ".patch">>],
    [num |-> 10, isFile |-> TRUE, name |-> <<"1", "0", "-", "x", ".patch">>],
    [num |-> -1, isFile |-> TRUE, name |-> <<"y", ".patch">>],
    [num |-> -1, isFile |-> TRUE, name |-> <<"2", "y", ".patch">>],
    [num |-> -2, isFile |-> TRUE, name |-> <<"0", "0", "2", "-", "x", ".txt">>],
    [num |-> -2, isFile |-> FALSE, name |-> <<"0", "0", "5", "-", "y", ".patch">>] }

NoListing ==
  [dirExists |-> FALSE, entries |-> <<>>, op |-> "none", patches |-> <<>>,
   next |-> <<>>, count |-> 0]

Read(dirExists, entries) == [NoListing EXCEPT !.dirExists = dirExists, !.entries = entries]

InitOrder ==
  /\ gitOnPath = TRUE
  /\ head = Baseline
  /\ commits = 1
  /\ index = Baseline
  /\ wt = Baseline
  /\ patchesExists = FALSE
  /\ patchDir = << >>
  /\ edits = 0
  /\ last = Idle
  /\ chain = NoChain
  /\ listing = NoListing
  /\ root = Downloaded

Project == <<gitOnPath, head, commits, index, wt, patchesExists, patchDir,
             edits, root, last, chain>>

\* ensureDir(paths.patches)
MakeDirectory ==
  /\ ~listing.dirExists
  /\ listing' = Read(TRUE, <<>>)
  /\ UNCHANGED Project

\* A file or a directory is created; readdir may return it at any place.
CreateEntry ==
  /\ listing.dirExists
  /\ Len(listing.entries) < MaxEntries
  /\ \E e \in EntryNames : \E at \in 0..Len(listing.entries) :
       /\ \A i \in 1..Len(listing.entries) : listing.entries[i].name # e.name
       /\ listing' = Read(TRUE,
                          SubSeq(listing.entries, 1, at)
                            \o <<[name |-> e.name, isFile |-> e.isFile]>>
                            \o SubSeq(listing.entries, at + 1, Len(listing.entries)))
  /\ UNCHANGED Project

Discover ==
  /\ listing' = [Read(listing.dirExists, listing.entries) EXCEPT
                   !.op = "discoverPatches",
                   !.patches = discoverPatches(listing.dirExists, listing.entries)]
  /\ UNCHANGED Project

Count ==
  /\ listing' = [Read(listing.dirExists, listing.entries) EXCEPT
                   !.op = "countPatches",
                   !.count = countPatches(listing.dirExists, listing.entries)]
  /\ UNCHANGED Project

NextNumber ==
  /\ listing' = [Read(listing.dirExists, listing.entries) EXCEPT
                   !.op = "getNextPatchNumber",
                   !.next = getNextPatchNumber(listing.dirExists, listing.entries)]
  /\ UNCHANGED Project

NextOrder ==
  \/ MakeDirectory
  \/ CreateEntry
  \/ Discover
  \/ Count
  \/ NextNumber

SpecOrder == InitOrder /\ [][NextOrder]_vars

\* ------------------------------------------------------------------------
\* Properties
\* ------------------------------------------------------------------------

\* What a patch does to a tree when it is applied: nothing where its
\* changes are already present, its forward changes otherwise.
PatchEffect(text, tree) ==
  IF GitApply(text, tree, TRUE).ok THEN tree ELSE GitApply(text, tree, FALSE).wt

\* The tree after the patches of the first n results have been applied.
RECURSIVE EffectOf(_, _, _, _)
EffectOf(results, n, pd, tree) ==
  IF n = 0 THEN tree
  ELSE PatchEffect(pd[results[n].filename], EffectOf(results, n - 1, pd, tree))

\* How often a git subcommand was run.
RECURSIVE CountCalls(_, _)
CountCalls(calls, c) ==
  IF calls = <<>> THEN 0
  ELSE (IF calls[1] = c THEN 1 ELSE 0) + CountCalls(Tail(calls), c)

\* The results are about the first patches of the directory, in discovery
\* order.
InDiscoveryOrder(results, pex, pd) ==
  \E entries \in Listings(pd) :
    LET d == discoverPatches(pex, entries) IN
    /\ Len(results) <= Len(d)
    /\ \A i \in 1..Len(results) : results[i].filename = d[i].filename

HaltOnFailureStep ==
  (last'.cmd = "import" /\ last'.note = "failed") =>
    LET results == last'.results
        k == Len(results)
    IN  /\ k >= 1
        /\ InDiscoveryOrder(results, patchesExists, patchDir)
        /\ \A i \in 1..(k - 1) : results[i].success
        /\ ~results[k].success
        /\ CountCalls(last'.calls, "apply --reverse") = (IF gitOnPath THEN k ELSE 0)
        /\ CountCalls(last'.calls, "apply") = (IF gitOnPath THEN k - 1 ELSE 0)
        /\ wt' = EffectOf(results, k - 1, patchDir, wt)
        /\ index' = index

\* C1 (halt on failure): when import applies the patch set and patch k, in
\* discovery order, is the first that fails, applyPatches returns exactly k
\* results, the first k-1 successful and the k-th failed, git is run for no
\* patch after the k-th, and the working tree is the one the first k-1
\* patches leave.
C1_HaltOnFailure == [][HaltOnFailureStep]_vars

\* An import of three patches whose second patch fails: two results, the
\* third patch is not tried.
C1_Witness_SecondOfThreeFails ==
  /\ last.cmd = "import"
  /\ last.note = "failed"
  /\ Cardinality(DOMAIN patchDir) = 3
  /\ Len(last.results) = 2
  /\ last.results[1].success
  /\ ~last.results[2].success

\* C2 (idempotence of import): when an import has applied a patch set to
\* the pristine workspace and import runs again with nothing done in
\* between, the second run succeeds and leaves the working tree as the
\* first run left it.
C2_ImportIdempotent ==
  chain.tag = "imported twice" => (last.err = "" /\ wt = chain.wt)

\* A second import of a patch set that touches every path once.
C2_Witness_SecondImportSucceeds ==
  /\ chain.tag = "imported twice"
  /\ Cardinality(DOMAIN patchDir) >= 2
  /\ last.err = ""
  /\ wt = chain.wt
  /\ wt # head

\* C3 (round trip): after export-all of a workspace delta with nothing
\* staged, reset, and import of the exported patch alone, the working tree
\* is the one export-all saw.
C3_RoundTrip ==
  (chain.tag = "round trip" /\ DOMAIN patchDir = {chain.file}) =>
    (last.err = "" /\ wt = chain.wt)

\* A round trip that reproduces the working tree.
C3_Witness_RoundTripReproduces ==
  /\ chain.tag = "round trip"
  /\ DOMAIN patchDir = {chain.file}
  /\ last.err = ""
  /\ wt = chain.wt
  /\ wt # head

\* The number the prefix of an entry's name denotes (see EntryNames).
NumOf(name) == (CHOOSE e \in EntryNames : e.name = name).num

\* The patch files among the entries of the directory read.
PatchFileNames ==
  { listing.entries[i].name : i \in { j \in 1..Len(listing.entries) :
                                        NumOf(listing.entries[j].name) >= -1 } }

\* The numbers of the prefixed patch files.
FiniteOrders == { NumOf(n) : n \in { m \in PatchFileNames : NumOf(m) >= 0 } }

Largest(S) == CHOOSE x \in S : \A y \in S : y <= x

\* A number below 100 in three digits.
ThreeDigits(n) == <<"0", Digits[(n \div 10) + 1], Digits[(n % 10) + 1]>>

\* C4 (next patch number): getNextPatchNumber returns "001" when the
\* directory holds no prefixed patch file, and otherwise the largest
\* numeric prefix plus one in three digits, whether or not unprefixed patch
\* files are present.
C4_NextPatchNumber ==
  listing.op = "getNextPatchNumber" =>
    listing.next = IF FiniteOrders = {} THEN <<"0", "0", "1">>
                   ELSE ThreeDigits(Largest(FiniteOrders) + 1)

\* Patches 1, 3 and 7 give "008".
C4_Witness_OneThreeSeven ==
  /\ listing.op = "getNextPatchNumber"
  /\ FiniteOrders = {1, 3, 7}
  /\ listing.next = <<"0", "0", "8">>

C6_BaselineImmutable == [][head' = head /\ commits' = commits]_vars

\* import has applied a patch that creates g (the user has written nothing)
\* and the branding is set up; the changes are in the working tree and HEAD
\* is the commit of download.
C6_Witness_PatchedAndBranded ==
  /\ last.cmd = "build"
  /\ last.note = "branding configured"
  /\ edits = 1
  /\ wt["g"] = CB
  /\ wt[BrandingScript] # Absent
  /\ wt[MozConfigure] # head[MozConfigure]
  /\ head = Baseline
  /\ commits = 1

\* C7 (reset leaves no delta): when reset has run to completion, git
\* status lists nothing and every file of the baseline commit has its
\* baseline content in the working tree.
C7_ResetLeavesNoDelta ==
  (last.cmd = "reset" /\ last.note = "reset") =>
    /\ GitStatus(TheWorld) = <<>>
    /\ \A p \in Paths : head[p] # Absent => wt[p] = head[p]

\* A reset that removed unstaged changes and untracked files.
C7_Witness_ResetCleans ==
  /\ last.cmd = "reset"
  /\ last.note = "reset"
  /\ edits = 2
  /\ GitStatus(TheWorld) = <<>>
  /\ wt = head

\* The forward effect of a patch is exactly present in a tree: every file
\* the patch changes has the content the patch gives it.
Present(text, tree) ==
  LET parsed == ParsePatch(text) IN
  /\ parsed.ok
  /\ \A i \in 1..Len(parsed.diffs) : tree[parsed.diffs[i].path] = parsed.diffs[i].new

AlreadyAppliedStep ==
  (/\ last'.cmd = "import"
   /\ gitOnPath
   /\ patchesExists
   /\ DOMAIN patchDir # {}
   /\ \A n \in DOMAIN patchDir : Present(patchDir[n], wt))
  => /\ last'.err = ""
     /\ Len(last'.results) = Cardinality(DOMAIN patchDir)
     /\ \A i \in 1..Len(last'.results) : last'.results[i].success
     /\ wt' = wt

\* C8 (already-applied patch): with git available, applyPatchIdempotent
\* succeeds for a patch whose forward effect is exactly present in the
\* working tree and leaves the content as it was; checked on every import
\* of a directory all of whose patches are already applied.
C8_AlreadyApplied == [][AlreadyAppliedStep]_vars

\* The single patch of the directory was applied by the previous import
\* and has been applied again.
C8_Witness_AppliedAgain ==
  /\ chain.tag = "imported twice"
  /\ Cardinality(DOMAIN patchDir) = 1
  /\ \A n \in DOMAIN patchDir : Present(patchDir[n], wt)
  /\ Len(last.results) = 1
  /\ last.results[1].success
  /\ wt = chain.wt

EmptyImportStep ==
  (last'.cmd = "import" /\ (~patchesExists \/ DOMAIN patchDir = {})) =>
    /\ last'.err = ""
    /\ last'.exit = 0
    /\ last'.results = <<>>
    /\ last'.calls = <<>>
    /\ wt' = wt
    /\ index' = index
    /\ patchDir' = patchDir
    /\ patchesExists' = patchesExists
    /\ applyPatches(patchesExists, <<>>, patchDir, TheWorld).results = <<>>
    /\ applyPatches(patchesExists, <<>>, patchDir, TheWorld).w = TheWorld

\* C9 (empty patch set): import with a missing or empty patches directory
\* ends without error, with no patch result, runs no git command, and
\* leaves the working tree, the index and the patches directory as they
\* were; applyPatches on the empty directory returns no result and changes
\* nothing.
C9_EmptyImport == [][EmptyImportStep]_vars

\* import found an empty patches directory and left a changed workspace
\* alone.
C9_Witness_EmptyDirectory ==
  /\ last.cmd = "import"
  /\ last.note = "no patches"
  /\ patchesExists
  /\ DOMAIN patchDir = {}
  /\ wt # head
  /\ last.calls = <<>>

\* C10 (git missing): a command that needs git (status, export,
\* export-all, reset, discard, and import with patches to apply), run while
\* git is not on PATH, ends with GitNotFoundError and the exit status of
\* version-control errors.
C10_GitMissing ==
  (/\ ~gitOnPath
   /\ \/ last.cmd \in {"status", "export", "export-all", "reset", "discard"}
      \/ (last.cmd = "import" /\ patchesExists /\ DOMAIN patchDir # {}))
  => (last.err = "GitNotFoundError" /\ last.exit = GIT_ERROR)

\* reset without git ends with GitNotFoundError.
C10_Witness_ResetWithoutGit ==
  /\ ~gitOnPath
  /\ last.cmd = "reset"
  /\ last.err = "GitNotFoundError"
  /\ last.exit = GIT_ERROR

\* The first failed result of a sequence of patch results, 0 if none.
FirstFailedIndex(results) ==
  IF \A i \in 1..Len(results) : results[i].success THEN 0
  ELSE CHOOSE i \in 1..Len(results) :
         ~results[i].success /\ \A j \in 1..(i - 1) : results[j].success

ImportErrorStep ==
  (last'.cmd = "import" /\ last'.results # <<>>) =>
    LET results == last'.results
        k == FirstFailedIndex(results)
    IN  /\ \A i \in 1..Len(results) :
             results[i].success <=>
               applyPatchIdempotent(
                 patchDir[results[i].filename],
                 [TheWorld EXCEPT !.wt = EffectOf(results, i - 1, patchDir, wt)]).err = ""
        /\ IF k # 0
           THEN /\ last'.err = "PatchError"
                /\ last'.file = results[k].filename
                /\ last'.file \in DOMAIN patchDir
                /\ last'.exit = PATCH_ERROR
                /\ last'.exit = 6
           ELSE /\ last'.err = ""
                /\ last'.exit = 0

\* C11 (import errors): when import applies the patch set and a patch
\* fails to apply, the command raises PatchError with the filename of the
\* first failing patch and the process exits with PATCH_ERROR (6); when
\* every patch applies, no error is raised and the process exits with 0.
C11_ImportPatchError == [][ImportErrorStep]_vars

\* The second patch of an import failed to apply while git was available:
\* PatchError names it and the exit status is 6.
C11_Witness_FailingPatchNamed ==
  /\ last.cmd = "import"
  /\ gitOnPath
  /\ last.err = "PatchError"
  /\ last.exit = 6
  /\ Len(last.results) = 2
  /\ last.file = last.results[2].filename
  /\ last.file = AuthoredName(<<"0", "0", "3", "-">>)

\* The file argument is one of the paths git status prints.
ListedInStatus(file) ==
  LET status == GitStatus(TheWorld)
  IN  \E i \in 1..Len(status) : status[i].file = file

\* The three conditions of a single-file export: the path is in the status,
\* it is no directory path, and the content of the file differs from HEAD
\* (so its diff text is not empty).
Exportable(file) ==
  /\ ~IsDirectoryPath(file)
  /\ wt[file] # head[file]
  /\ ListedInStatus(file)

ExportGuardStep ==
  last'.cmd = "export" =>
    \/ /\ last'.err = "GeneralError"
       /\ last'.exit = GENERAL_ERROR
       /\ last'.note # "exported"
       /\ patchDir' = patchDir
       /\ patchesExists' = patchesExists
    \/ Exportable(last'.arg)

\* C12 (single-file export guards): with git available, export <file>
\* writes a patch file only if the path appears in the status, is not a
\* directory path and its diff against HEAD is not empty; in each of the
\* other cases it ends with GeneralError (exit 1) and leaves the patches
\* directory as it was.
C12_ExportGuards == [][ExportGuardStep]_vars

\* export of a file that was added to the index and then deleted: the
\* status lists it, its diff against HEAD is empty, GeneralError.
C12_Witness_ListedWithoutDiff ==
  /\ last.cmd = "export"
  /\ last.arg = "g"
  /\ ListedInStatus("g")
  /\ index["g"] # Absent
  /\ wt["g"] = Absent
  /\ last.err = "GeneralError"
  /\ last.note = "no diff"


\* A run of export or export-all without --name while stdin or stdout is
\* no terminal, in a workspace where the command has something to export.
NamelessNonInteractive ==
  /\ last'.cmd \in {"export", "export-all"}
  /\ last'.in.name = NoName
  /\ ~last'.in.isInteractive
  /\ last'.cmd = "export" => Exportable(last'.arg)
  /\ last'.cmd = "export-all" =>
       /\ hasChanges(TheWorld).val
       /\ NonBlank(getAllDiff(TheWorld).val)

NonInteractiveStep ==
  NamelessNonInteractive =>
    /\ last'.err # ""
    /\ last'.note \notin {"exported", "cancelled"}
    /\ patchDir' = patchDir
    /\ patchesExists' = patchesExists

\* C13 (non-interactive export needs a name): when stdin or stdout is not a
\* terminal, export and export-all without --name end with an error, ask
\* no question, and write no patch file.
C13_NonInteractiveNeedsName == [][NonInteractiveStep]_vars

\* export <file> without --name and without a terminal: InvalidArgumentError,
\* nothing written.
C13_Witness_ExportNeedsName ==
  /\ last.cmd = "export"
  /\ last.in.name = NoName
  /\ ~last.in.isInteractive
  /\ last.err = "InvalidArgumentError"
  /\ last.note = "name required"


NothingToExportStep ==
  (/\ last'.cmd = "export-all"
   /\ gitOnPath
   /\ GitStatus(TheWorld) = <<>>)
  => /\ last'.err = ""
     /\ last'.exit = 0
     /\ last'.note = "nothing to export"
     /\ last'.file = <<>>
     /\ patchDir' = patchDir
     /\ patchesExists' = patchesExists
     /\ wt' = wt

\* C14 (export-all without delta): export-all in a workspace whose status
\* is empty ends with the "nothing to export" outcome whatever name or
\* answer is supplied: no error, and no file is created in the patches
\* directory.
C14_NothingToExport == [][NothingToExportStep]_vars

\* export-all with --name on a workspace that was changed and changed back.
C14_Witness_CleanExportAll ==
  /\ last.cmd = "export-all"
  /\ last.in.name # NoName
  /\ last.note = "nothing to export"
  /\ edits > 1
  /\ GitStatus(TheWorld) = <<>>
  /\ patchDir = <<>>


\* The number of lines of a file: its newline-terminated lines, and one
\* more when text follows the last newline.
LinesOfFile(content) ==
  Cardinality({i \in 1..Len(content) : content[i] = NL})
  + (IF Len(content) > 0 /\ content[Len(content)] # NL THEN 1 ELSE 0)

\* The last command exported the new untracked file g, the only change of
\* the workspace, to the patch last.file.
NewFileExported ==
  /\ last.cmd \in {"export", "export-all"}
  /\ last.note = "exported"
  /\ index["g"] = Absent
  /\ wt["g"] # Absent
  /\ Len(GitStatus(TheWorld)) = 1

KindsOf(patch) == [i \in 1..Len(patch.lines) |-> patch.lines[i].k]

CountKind(patch, k) ==
  Cardinality({i \in 1..Len(patch.lines) : patch.lines[i].k = k})

\* C15 (new-file diff): the patch of a new file has the four header lines
\* and one hunk @@ -0,0 +1,N @@ where N is the number of "+" lines and the
\* number of lines of the file; the "\ No newline at end of file" marker is
\* there exactly when the content does not end with a newline; for the
\* content "hello\n" the hunk is @@ -0,0 +1,1 @@, +hello, without marker.
C15_NewFileDiff ==
  NewFileExported =>
    LET patch == patchDir[last.file]
        content == wt["g"]
    IN  /\ Len(patch.lines) >= 5
        /\ SubSeq(KindsOf(patch), 1, 5) = <<"diff", "new", "---", "+++", "@@">>
        /\ patch.lines[1].p = "g"
        /\ patch.lines[3].p = "/dev/null"
        /\ patch.lines[4].p = "g"
        /\ CountKind(patch, "@@") = 1
        /\ patch.lines[5].n = CountKind(patch, "+")
        /\ patch.lines[5].n = LinesOfFile(content)
        /\ CountKind(patch, "\\") = (IF EndsWithNL(content) THEN 0 ELSE 1)
        /\ content = <<"hello", NL>> =>
             SubSeq(patch.lines, 5, Len(patch.lines))
               = <<DL("@@", "", <<>>, 0, 1), DL("+", "", <<"hello">>, 0, 0)>>

\* export-all of the new file g with content "hello\n".
C15_Witness_Hello ==
  /\ NewFileExported
  /\ last.cmd = "export-all"
  /\ wt["g"] = <<"hello", NL>>
  /\ patchDir[last.file].lines[5] = DL("@@", "", <<>>, 0, 1)
  /\ patchDir[last.file].lines[6] = DL("+", "", <<"hello">>, 0, 0)
  /\ Len(patchDir[last.file].lines) = 6


\* The file argument names nothing that differs from HEAD: neither its
\* content in the working tree nor its staged content.
NoDelta(file) ==
  /\ file \in Paths
  /\ wt[file] = head[file]
  /\ index[file] = head[file]

NothingToDiscardStep ==
  (/\ last'.cmd = "discard"
   /\ gitOnPath
   /\ NoDelta(last'.arg))
  => /\ last'.err = ""
     /\ last'.exit = 0
     /\ last'.note = "nothing to discard"
     /\ last'.calls = <<"status">>
     /\ UNCHANGED <<head, index, wt, commits, patchesExists, patchDir>>

\* C16 (discard without delta): discard <file> on a file without delta
\* succeeds, reports that there is nothing to discard, runs git status
\* only (no checkout), and leaves the workspace as it was.
C16_NothingToDiscard == [][NothingToDiscardStep]_vars

\* discard f while f is as in HEAD and another file is changed.
C16_Witness_DiscardCleanFile ==
  /\ last.cmd = "discard"
  /\ last.arg = "f"
  /\ last.note = "nothing to discard"
  /\ wt["f"] = head["f"]
  /\ wt["g"] # head["g"]


\* The category of a status code: the eight named categories, "changed" for
\* every other code.
Category(code) ==
  CASE code = "M" -> "modified"
    [] code = "A" -> "added"
    [] code = "D" -> "deleted"
    [] code = "R" -> "renamed"
    [] code = "C" -> "copied"
    [] code = "U" -> "unmerged"
    [] code = "??" -> "untracked"
    [] code = "!!" -> "ignored"
    [] OTHER -> "changed"

\* C17 (status categories): the status command labels every group of files
\* by the category of its status code: modified, added, deleted, renamed,
\* copied, unmerged, untracked (code ??) and ignored; only other codes are
\* labelled "changed".
C17_StatusCategories ==
  (last.cmd = "status" /\ last.note = "listed") =>
    \A i \in 1..Len(last.results) :
      last.results[i].description = Category(last.results[i].status)

\* status listing a modified and a deleted file under their own labels.
C17_Witness_ModifiedAndDeleted ==
  /\ last.cmd = "status"
  /\ last.note = "listed"
  /\ \E i, j \in 1..Len(last.results) :
       /\ last.results[i].status = "M"
       /\ last.results[i].description = "modified"
       /\ last.results[j].status = "D"
       /\ last.results[j].description = "deleted"


\* A second run of setupBranding right after a successful run with the
\* same configuration.
SecondRun ==
  /\ last.cmd = "branding"
  /\ last.err = ""
  /\ last'.cmd = "branding"
  /\ last'.in = last.in

IdempotentStep ==
  SecondRun =>
    /\ last'.err = ""
    /\ wt'[BrandingScript] = wt[BrandingScript]
    /\ wt'[MozConfigure] = wt[MozConfigure]
    /\ wt' = wt

\* C18 (setupBranding is idempotent): for any branding configuration, when
\* a run of setupBranding succeeds, a second run with the same
\* configuration succeeds too and leaves configure.sh, browser/moz.configure
\* and every other file as the first run left them.
C18_BrandingIdempotent == [][IdempotentStep]_vars

\* Two successful runs in a row with a vendor that has a backslash.
C18_Witness_SecondRunSame ==
  /\ last.cmd = "branding"
  /\ last.err = ""
  /\ edits = 2
  /\ last.in.vendor = <<Backslash, "V">>
  /\ wt[MozConfigure] = VendorOption(<<Backslash, Backslash, "V">>) \o <<NL>>
  /\ wt[BrandingScript] = ConfigureScript(last.in)


\* browser/moz.configure has an imply_option("MOZ_APP_VENDOR", "...") call.
HasVendorOption(content) ==
  /\ content # Absent
  /\ \E i \in 1..Len(content) : content[i] = OptionOpen

VendorStep ==
  last'.cmd = "branding" =>
    /\ ~HasVendorOption(wt[MozConfigure]) =>
         /\ last'.err = "BrandingError"
         /\ wt'[MozConfigure] = wt[MozConfigure]
    /\ last'.err = "" =>
         IncludesSeq(wt'[MozConfigure], VendorOption(escapeString(last'.in.vendor)))

\* C19 (vendor option required): when browser/moz.configure has no
\* imply_option("MOZ_APP_VENDOR", "...") call, setupBranding fails with
\* BrandingError and does not write moz.configure; and whenever it succeeds,
\* the vendor option of moz.configure holds the configured vendor.
C19_VendorOptionRequired == [][VendorStep]_vars

\* setupBranding on a moz.configure without the option: BrandingError, the
\* file as it was.
C19_Witness_NoVendorOption ==
  /\ last.cmd = "branding"
  /\ last.err = "BrandingError"
  /\ last.exit = PATCH_ERROR
  /\ wt[MozConfigure] = <<"#", NL>>


\* The name a run of export or export-all was given: with --name, or else
\* at the prompt.
GivenName(in) == IF in.name # NoName THEN in.name ELSE in.prompt

LetterOrDigit(c) == c \in {"x", "y", "X"} \/ IsDigit(c)

\* The maximal runs of letters and digits of a string, in order.
RECURSIVE WordsOf(_)
WordsOf(s) ==
  IF s = <<>> THEN <<>>
  ELSE IF ~LetterOrDigit(s[1]) THEN WordsOf(Tail(s))
  ELSE LET k == CHOOSE n \in 1..Len(s) :
                  /\ \A i \in 1..n : LetterOrDigit(s[i])
                  /\ n = Len(s) \/ ~LetterOrDigit(s[n + 1])
       IN  <<SubSeq(s, 1, k)>> \o WordsOf(SubSeq(s, k + 1, Len(s)))

RECURSIVE JoinWithHyphens(_)
JoinWithHyphens(words) ==
  IF words = <<>> THEN <<>>
  ELSE IF Len(words) = 1 THEN words[1]
  ELSE words[1] \o <<"-">> \o JoinWithHyphens(Tail(words))

\* The sanitized name: lower case, one hyphen for each run of other
\* characters, none at either end, then the first 50 characters.
SanitizedName(name) ==
  LET lower == [i \in 1..Len(name) |-> IF name[i] = "X" THEN "x" ELSE name[i]]
      joined == JoinWithHyphens(WordsOf(lower))
  IN  IF Len(joined) <= 50 THEN joined ELSE SubSeq(joined, 1, 50)

\* The numbers of the prefixed patch files of the patches directory.
PrefixedOrders(pd) ==
  { extractOrder(n).n : n \in { m \in DOMAIN pd : extractOrder(m) # Infinity } }

\* nextOrder: "001" without prefixed patch files, else the largest prefix
\* plus one in three digits.
NextOrderOf(pd) ==
  IF PrefixedOrders(pd) = {} THEN <<"0", "0", "1">>
  ELSE ThreeDigits(Largest(PrefixedOrders(pd)) + 1)

Exported == last'.cmd \in {"export", "export-all"} /\ last'.note = "exported"

FilenameStep ==
  Exported =>
    /\ last'.file = NextOrderOf(patchDir) \o <<"-">>
                      \o SanitizedName(GivenName(last'.in)) \o <<".patch">>
    /\ last'.file \in DOMAIN patchDir'

\* C20 (patch filename): the file export and export-all write is named
\* <nextOrder>-<sanitized name>.patch, the sanitized name being the given
\* name in lower case, each run of non-alphanumeric characters made one
\* hyphen, hyphens at both ends removed, then cut to 50 characters.
C20_PatchFilename == [][FilenameStep]_vars

\* A 52-character name given at the prompt of export-all, cut to 50
\* characters ending in a hyphen.
C20_Witness_LongName ==
  /\ last.cmd = "export-all"
  /\ last.note = "exported"
  /\ last.in.name = NoName
  /\ last.in.prompt = <<"X">> \o Filler \o <<"!", "x">>
  /\ last.file = <<"0", "0", "1", "-">> \o <<"x">> \o Filler \o <<"-", ".patch">>


\* ------------------------------------------------------------------------
\* The project root: config and download runs
\* ------------------------------------------------------------------------

MaxProjectRuns == 3

\* Values given to config on the command line: 132.0, 16, 147.0b1, "132.0"
\* in quotes, and 1.5.
CliValues ==
  {V132, <<"1", "6">>, V147b1, <<Quote>> \o V132 \o <<Quote>>, <<"1", ".", "5">>}

SetKeys == {"firefox.version", "build.jobs", "name"}

\* A project after setup, before or after its first download.
InitProject ==
  /\ gitOnPath \in BOOLEAN
  /\ \/ /\ root = Downloaded
        /\ head = Baseline /\ index = Baseline /\ wt = Baseline /\ commits = 1
     \/ /\ root = [Downloaded EXCEPT !.engine = "absent",
                                     !.cache = [v \in Versions |-> "none"],
                                     !.downloadedVersion = Undefined]
        /\ head = NoTree /\ index = NoTree /\ wt = NoTree /\ commits = 0
  /\ patchesExists = FALSE
  /\ patchDir = << >>
  /\ edits = 0
  /\ last = Idle
  /\ chain = NoChain
  /\ listing = NoListing

\* What a run in the project root records.
Ran(cmd, arg, in, err, note, calls) ==
  /\ last' = [cmd |-> cmd, arg |-> arg, in |-> in, err |-> err,
              exit |-> ExitCodeOf(err), note |-> note, results |-> <<>>,
              calls |-> calls, file |-> <<>>]
  /\ edits' = edits + 1
  /\ UNCHANGED <<gitOnPath, patchesExists, patchDir, listing, chain>>

Download ==
  /\ edits < MaxProjectRuns
  /\ \E force \in BOOLEAN, fetch \in Fetches :
     \E r \in {downloadCommand(root, TheWorld, force, fetch)} :
       /\ root' = r.root
       /\ head' = r.w.head
       /\ commits' = r.w.commits
       /\ index' = r.w.index
       /\ wt' = r.w.wt
       /\ Ran("download", "", [force |-> force, fetch |-> fetch], r.err,
              IF r.err = "" THEN <<"ready">> ELSE <<>>,
              IF r.fetched THEN <<"fetch">> ELSE <<>>)

ConfigSet ==
  /\ edits < MaxProjectRuns
  /\ \E key \in SetKeys, value \in CliValues :
     \E r \in {configCommand(root, key, Given(value))} :
       /\ root' = r.root
       /\ Ran("config", key, Given(value), r.err, r.line, <<>>)
       /\ UNCHANGED <<head, commits, index, wt>>

ConfigGet ==
  /\ edits < MaxProjectRuns
  /\ \E key \in SetKeys :
     \E r \in {configCommand(root, key, NotGiven)} :
       /\ root' = r.root
       /\ Ran("config", key, NotGiven, r.err, r.line, <<>>)
       /\ UNCHANGED <<head, commits, index, wt>>

NextProject ==
  \/ Download
  \/ ConfigSet
  \/ ConfigGet

SpecProject == InitProject /\ [][NextProject]_vars

\* ------------------------------------------------------------------------
\* C21
\* ------------------------------------------------------------------------

EngineExistsStep ==
  (/\ last'.cmd = "download"
   /\ ~last'.in.force
   /\ root.engine # "absent"
   /\ loadConfig(root) = "")
  => /\ last'.err = "EngineExistsError"
     /\ last'.exit = DOWNLOAD_ERROR
     /\ root' = root
     /\ UNCHANGED <<head, commits, index, wt>>

ForcedStep ==
  (/\ last'.cmd = "download"
   /\ root.engine # "absent"
   /\ root'.engine # root.engine \/ <<head, commits, index, wt>>' # <<head, commits, index, wt>>)
  => last'.in.force

\* C21 (download on an existing engine): download without --force, on a
\* project whose forge.json loads and whose engine directory exists, fails
\* with EngineExistsError and leaves the engine directory, the cache and
\* the stored state as they were; a download run that removes or replaces
\* an existing engine directory was given --force.
C21_EngineExists == [][EngineExistsStep /\ ForcedStep]_vars

\* A download without --force in a project whose engine is a repository.
C21_Witness_SecondDownload ==
  /\ last.cmd = "download"
  /\ ~last.in.force
  /\ last.err = "EngineExistsError"
  /\ root.engine = "repository"
  /\ root.downloadedVersion = JString(V146)


\* ------------------------------------------------------------------------
\* C22
\* ------------------------------------------------------------------------

\* The settings the README gives: firefox.version 132.0 and build.jobs 16.
Documented(key, value) ==
  \/ key = "firefox.version" /\ value = V132
  \/ key = "build.jobs" /\ value = <<"1", "6">>

SetSucceeded ==
  /\ last'.cmd = "config"
  /\ last'.in.given
  /\ last'.err = ""
  /\ Documented(last'.arg, last'.in.text)

ConfigSetStep ==
  SetSucceeded =>
    /\ validateConfig(root'.config) = ""
    /\ configCommand(root', last'.arg, NotGiven).err = ""
    /\ configCommand(root', last'.arg, NotGiven).line
         = <<last'.arg, " = ">> \o last'.in.text

\* C22 (config set keeps forge.json loadable): after config firefox.version
\* 132.0 or config build.jobs 16 succeeds, validateConfig accepts forge.json
\* and config <key> prints the value that was given.
C22_ConfigSetKeepsValid == [][ConfigSetStep]_vars

\* config build.jobs 16, followed by config build.jobs printing 16.
C22_Witness_JobsSet ==
  /\ last.cmd = "config"
  /\ last.arg = "build.jobs"
  /\ ~last.in.given
  /\ last.err = ""
  /\ last.note = <<"build.jobs", " = ", "1", "6">>
  /\ root.config["build.jobs"] = JNumber(<<"1", "6">>)


\* ------------------------------------------------------------------------
\* C29
\* ------------------------------------------------------------------------

\* A download run that got to the tarball and took it from the cache.
ReusedCache ==
  /\ last'.cmd = "download"
  /\ loadConfig(root) = ""
  /\ root.engine = "absent" \/ last'.in.force
  /\ last'.calls = <<>>

CacheReuseStep ==
  ReusedCache => root.cache[root.config["firefox.version"].v] = "complete"

\* C29 (partial tarball): a download run takes the tarball from the cache,
\* without fetching it, only if the cached tarball is complete; a tarball
\* left by an interrupted download is fetched again.
C29_NoPartialReuse == [][CacheReuseStep]_vars

\* After an interrupted download of 146.0, a download of 147.0b1 that
\* fetches the whole tarball.
C29_Witness_FetchAfterFailure ==
  /\ last.cmd = "download"
  /\ last.calls = <<"fetch">>
  /\ last.err = ""
  /\ root.cache[V146] = "partial"
  /\ root.cache[V147b1] = "complete"


\* ------------------------------------------------------------------------
\* C23
\* ------------------------------------------------------------------------

\* The results of an import run against the exit statuses of git: patch i
\* is tried on the tree left by the patches before it, after its reverse
\* application (which changes the tree only when it exits zero); its result
\* is a success exactly when the forward application exits zero, and the
\* run ends on the tree the last forward application or the last reverse
\* application left.
RECURSIVE ForwardDecides(_, _, _, _, _)
ForwardDecides(results, i, pd, tree, final) ==
  IF i > Len(results) THEN tree = final
  ELSE Bind(GitApply(pd[results[i].filename], tree, TRUE), LAMBDA rev :
         Bind(GitApply(pd[results[i].filename], rev.wt, FALSE), LAMBDA fwd :
           /\ rev.ok \/ rev.wt = tree
           /\ results[i].success = fwd.ok
           /\ IF fwd.ok THEN ForwardDecides(results, i + 1, pd, fwd.wt, final)
              ELSE i = Len(results) /\ final = rev.wt))

Succeeded(results) == {i \in 1..Len(results) : results[i].success}

IdempotentApplyStep ==
  (last'.cmd = "import" /\ last'.results # <<>> /\ gitOnPath)
  => /\ ForwardDecides(last'.results, 1, patchDir, wt, wt')
     /\ CountCalls(last'.calls, "apply --reverse") = Len(last'.results)
     /\ CountCalls(last'.calls, "apply --check") = Len(last'.results)
     /\ CountCalls(last'.calls, "apply") = Cardinality(Succeeded(last'.results))

\* C23 (idempotent apply): with git available, the result of a patch is a
\* failure exactly when its forward application (apply --check, then apply)
\* exits non-zero on the tree its reverse application left; a reverse
\* application that exits non-zero changes nothing and fails nothing; and
\* a patch whose check fails gets no forward apply, the tree stays as its
\* reverse application left it.
C23_ForwardDecides == [][IdempotentApplyStep]_vars

\* An import on the pristine tree: the reverse application of the first
\* patch exits non-zero, the patch succeeds, and the second patch fails
\* its check.
C23_Witness_ReverseFailsForwardDecides ==
  /\ last.cmd = "import"
  /\ Len(last.results) = 2
  /\ last.results[1].success
  /\ ~last.results[2].success
  /\ last.calls = <<"apply --reverse", "apply --check", "apply",
                    "apply --reverse", "apply --check">>
  /\ chain.tag = "none"


\* ------------------------------------------------------------------------
\* C24
\* ------------------------------------------------------------------------

\* The names of the regular files of the directory that end in .patch.
RegularPatchFiles ==
  { listing.entries[i].name : i \in
      { k \in 1..Len(listing.entries) :
          /\ listing.entries[k].isFile
          /\ Len(listing.entries[k].name) >= 2
          /\ listing.entries[k].name[Len(listing.entries[k].name)] = ".patch" } }

Discovered == { listing.patches[i].filename : i \in 1..Len(listing.patches) }

\* C24 (what discovery returns): discoverPatches returns the empty sequence
\* when the patches directory does not exist, and otherwise each regular
\* file of the directory that ends in .patch once, and nothing else;
\* countPatches is the number of these files.
C24_DiscoverContents ==
  /\ listing.op = "discoverPatches" =>
       /\ ~listing.dirExists => listing.patches = <<>>
       /\ Discovered = RegularPatchFiles
       /\ Len(listing.patches) = Cardinality(RegularPatchFiles)
  /\ listing.op = "countPatches" =>
       listing.count = Cardinality(RegularPatchFiles)

\* A directory with a patch file, a text file and a directory named like
\* a patch: discovery returns the patch file alone.
C24_Witness_FilteredListing ==
  /\ listing.op = "discoverPatches"
  /\ Len(listing.entries) = 3
  /\ Len(listing.patches) = 1
  /\ \E i \in 1..3 : ~listing.entries[i].isFile
  /\ \E i \in 1..3 : listing.entries[i].name[Len(listing.entries[i].name)] = ".txt"


\* ------------------------------------------------------------------------
\* C25
\* ------------------------------------------------------------------------

NewFileStep == Exported => last'.file \notin DOMAIN patchDir

AppliedLastStep ==
  Exported =>
    /\ extractOrder(last'.file) # Infinity
    /\ \A n \in PrefixedOrders(patchDir) : extractOrder(last'.file).n > n

\* C25 (export appends): the file written by export or export-all is not
\* one of the files the patches directory held before, and its order
\* number is greater than the order of every prefixed file the directory
\* held before.
C25_ExportAppends == [][NewFileStep /\ AppliedLastStep]_vars

\* An export into a directory of prefixed files: 001-y.patch and
\* 002-y.patch are kept, 003-x.patch is added.
C25_Witness_Appended ==
  /\ last.cmd \in {"export", "export-all"}
  /\ last.note = "exported"
  /\ last.file = <<"0", "0", "3", "-", "x", ".patch">>
  /\ DOMAIN patchDir = {AuthoredName(<<"0", "0", "1", "-">>),
                        AuthoredName(<<"0", "0", "2", "-">>), last.file}


\* ------------------------------------------------------------------------
\* C30
\* ------------------------------------------------------------------------

\* discoverPatches of the directory listed as entries returns the file
\* with the order n.
Rediscovered(entries, file, n) ==
  Bind(discoverPatches(patchesExists', entries), LAMBDA patches :
    \E i \in 1..Len(patches) :
      /\ patches[i].filename = file
      /\ patches[i].order = Finite(ParseInt(n)))

\* The directory after the export as readdir may list it: the other files
\* in one order, the exported file at any place among them.
ListingsAfter(file) ==
  Bind(CHOOSE s \in Orders(DOMAIN patchDir' \ {file}) : TRUE, LAMBDA others :
    { [i \in 1..(Len(others) + 1) |->
         [name |-> IF i <= k THEN others[i]
                   ELSE IF i = k + 1 THEN file ELSE others[i - 1],
          isFile |-> TRUE]] : k \in 0..Len(others) })

RediscoveredStep ==
  Exported =>
    \E n \in NextPatchNumbers :
      /\ SubSeq(last'.file, 1, Len(n)) = n
      /\ \A entries \in ListingsAfter(last'.file) :
           Rediscovered(entries, last'.file, n)

\* C30 (exported files are rediscovered): the file export or export-all
\* writes is returned by discoverPatches, wherever readdir lists it among
\* the other files, with the finite order getNextPatchNumber gave it; also
\* for names that sanitize to the empty string and names cut to 50
\* characters.
C30_ExportedIsDiscovered == [][RediscoveredStep]_vars

\* The name "!" sanitizes to the empty string: 001-.patch is written.
C30_Witness_EmptyName ==
  /\ last.cmd \in {"export", "export-all"}
  /\ last.note = "exported"
  /\ GivenName(last.in) = <<"!">>
  /\ last.file = <<"0", "0", "1", "-", ".patch">>
  /\ last.file \in DOMAIN patchDir


\* ------------------------------------------------------------------------
\* C26
\* ------------------------------------------------------------------------

\* C26 (the extended patch set applies again): when import has applied a
\* non-empty patch set to the pristine workspace, files were edited by
\* hand, export-all has written a patch with nothing staged, reset ran to
\* completion and import ran again, that import succeeds and the working
\* tree is the one export-all saw.
C26_ExtendedSetReapplies ==
  chain.tag = "extended round trip" => (last.err = "" /\ wt = chain.wt)

\* The sequence import, edit, export-all, reset, import has run, over a
\* patch set that holds the imported patches and the exported one.
C26_Witness_ExtendedRoundTrip ==
  /\ chain.tag = "extended round trip"
  /\ last.cmd = "import"
  /\ chain.file \in DOMAIN patchDir
  /\ Cardinality(DOMAIN patchDir) >= 2
  /\ chain.wt # head


\* ------------------------------------------------------------------------
\* C27
\* ------------------------------------------------------------------------

\* The branding step of a build has failed in setupBranding.
BuildFailed == last'.cmd = "build" /\ last'.err = "BrandingError"

NotReportedStep ==
  BuildFailed =>
    ~isBrandingSetup(World(gitOnPath', head', commits', index', wt'), last'.in)

NoSkipStep ==
  (/\ last.cmd = "build"
   /\ last.err = "BrandingError"
   /\ last'.cmd = "build"
   /\ last'.in = last.in)
  => last'.note # "branding present"

\* C27 (a failed setup is not taken for done): after a build whose
\* setupBranding failed with BrandingError, isBrandingSetup is false for
\* that configuration, and the next build with the same configuration does
\* not skip setupBranding.
C27_FailedSetupNotReported == [][NotReportedStep /\ NoSkipStep]_vars

\* A build that skips setupBranding after a build that configured it:
\* browser/moz.configure holds the vendor of the configuration.
C27_Witness_SkipAfterSuccess ==
  /\ last.cmd = "build"
  /\ last.note = "branding present"
  /\ last.in.vendor = <<"V">>
  /\ edits = 1
  /\ IncludesSeq(wt[MozConfigure], VendorOption(<<"V">>))


\* ------------------------------------------------------------------------
\* C28
\* ------------------------------------------------------------------------

ReadOnlyStep ==
  last'.cmd \in {"export", "export-all", "status"} =>
    UNCHANGED <<head, commits, index, wt>>

PatchesKeptStep ==
  last'.cmd = "import" => UNCHANGED <<patchesExists, patchDir>>

\* C28 (what the commands leave alone): export, export-all and status
\* leave HEAD, the index and the working tree as they were, whether they
\* succeed or fail; import leaves the patches directory and every file in
\* it as they were.
C28_FrameEffects == [][ReadOnlyStep /\ PatchesKeptStep]_vars

\* An export-all that wrote a patch from a working tree with changes.
C28_Witness_ExportKeepsTree ==
  /\ last.cmd = "export-all"
  /\ last.note = "exported"
  /\ wt # head
  /\ index = head
  /\ last.file \in DOMAIN patchDir

====
